---------------------------- MODULE Spec2Model ----------------------------
(***************************************************************************)
(* AgentCast (server.js): the in-memory stream registry, its fixed-window  *)
(* rate limiters, token rotation, the moderation surface, the viewer and   *)
(* chat handlers of a socket, and the two maintenance timers.              *)
(*                                                                         *)
(* Node runs every handler to completion on one thread and no handler     *)
(* awaits, so each handler is one atomic action; concurrent requests are   *)
(* the interleavings of these actions.                                     *)
(*                                                                         *)
(* Time is Date.now() in milliseconds.  Texts and names are sequences of   *)
(* one-character strings.  A token is a natural number: generateToken()    *)
(* draws 24 random bytes, modelled as a value never issued before; 0 is a  *)
(* request that carries no token.                                          *)
(*                                                                         *)
(* socket.io delivers what a handler emits in the order of the emit calls: *)
(* socket.emit reaches that socket, io.to(room).emit the sockets that are  *)
(* in the room when it is called.                                          *)
(*                                                                         *)
(* Not modelled: logActivity's ring buffer and console output (no handler  *)
(* reads them back).                                                       *)
(***************************************************************************)
EXTENDS Integers, Sequences, FiniteSets, TLC

VARIABLES
    now,                \* Date.now()
    streams,            \* Map name -> session (NoStream: no entry)
    chatMessages,       \* Map name -> chat log
    bannedAgents,       \* Set of names
    rateLimits,         \* Map name -> {count, resetTime}
    ipConnectionCounts, \* Map ip -> {count, resetTime}
    ipStreamCreation,   \* Map ip -> {count, resetTime}
    globalStats,        \* the day-scoped and all-time counters
    tokensIssued,       \* number of tokens generateToken() has returned
    sockets,            \* per connection: its closure variables and state
    rooms,              \* socket.io rooms: connection -> names it is in
    inbox,              \* per connection: the events delivered to it
    emits,              \* the emit calls of the handler that ran last
    last                \* the event handled last, and the response to it

vars == <<now, streams, chatMessages, bannedAgents, rateLimits,
          ipConnectionCounts, ipStreamCreation, globalStats, tokensIssued,
          sockets, rooms, inbox, emits, last>>

-----------------------------------------------------------------------------
(* Program constants *)

STREAM_RATE_WINDOW == 60000
STREAM_RATE_MAX == 100
IP_CONN_WINDOW == 60000
IP_CONN_MAX == 10
IP_CREATE_WINDOW == 3600000
IP_CREATE_MAX == 10
MAX_TEXT_LENGTH == 500
MAX_LINES == 500
MAX_CHAT_LENGTH == 200
MAX_CHAT_MESSAGES == 200
CHAT_COOLDOWN == 6000
INACTIVE_TIMEOUT == 300000
DAILY_TICK == 60000
TickJitter == 1
NAME_MIN_LENGTH == 3
NAME_MAX_LENGTH == 30

\* MAX_VIEWERS_PER_STREAM is read from the environment (default 1000); the
\* model runs the server configured with a small capacity, one less than
\* the connections it opens.
MAX_VIEWERS_PER_STREAM == 3

-----------------------------------------------------------------------------
(* Bounds of the model *)

\* Date.now() when the process starts, in ms: midnight of some day.
StartDay == 1
\* Accepted sends per name, token rotations and connections (main model).
MaxSends == 2
MaxRotations == 1
MaxConns == 4
MaxChats == 1
MaxJoins == 2
MaxInbox == 5
\* The burst models: messages one producer sends, the sends after which it
\* still pauses before its budget is used up, the names clients claim, and
\* the chat messages viewers send.
BurstSends == 620
EarlySends == 2
BurstNames == 12
BurstChats == 205

MsPerDay == 24 * 3600000
StartTime == StartDay * MsPerDay


-----------------------------------------------------------------------------
(* Values *)

Lower == {"a","b","c","d","e","f","g","h","i","j","k","l","m",
          "n","o","p","q","r","s","t","u","v","w","x","y","z"}
Upper == {"A","B","C","D","E","F","G","H","I","J","K","L","M",
          "N","O","P","Q","R","S","T","U","V","W","X","Y","Z"}
Digit == {"0","1","2","3","4","5","6","7","8","9"}

\* The decimal digits of a natural number, as characters.
DigitChar(d) == CASE d = 0 -> "0" [] d = 1 -> "1" [] d = 2 -> "2" [] d = 3 -> "3"
                  [] d = 4 -> "4" [] d = 5 -> "5" [] d = 6 -> "6" [] d = 7 -> "7"
                  [] d = 8 -> "8" [] d = 9 -> "9"

RECURSIVE Decimal(_)
Decimal(k) == IF k < 10 THEN <<DigitChar(k)>>
              ELSE Append(Decimal(k \div 10), DigitChar(k % 10))

\* A map (JavaScript Map) is a function whose domain is its set of keys.
EmptyMap == [k \in {} |-> k]
MapSet(m, k, v) == [x \in DOMAIN m \cup {k} |-> IF x = k THEN v ELSE m[x]]

\* A request body's text: a string, or anything else (absent, a number).
Str(chars) == [isString |-> TRUE, chars |-> chars]
NotAString == [isString |-> FALSE, chars |-> <<>>]

NoToken == 0

\* A generator that repeats itself: it hands out the token issued last.
generateTokenRepeat == tokensIssued

generateToken == tokensIssued + 1

RECURSIVE escapeHtml(_)
escapeHtml(text) ==
    IF text = <<>> THEN <<>>
    ELSE LET c == Head(text)
             e == CASE c = "&"  -> <<"&","a","m","p",";">>
                    [] c = "<"  -> <<"&","l","t",";">>
                    [] c = ">"  -> <<"&","g","t",";">>
                    [] c = "\"" -> <<"&","q","u","o","t",";">>
                    [] c = "'"  -> <<"&","#","0","3","9",";">>
                    [] OTHER    -> <<c>>
         IN e \o escapeHtml(Tail(text))

\* toTimeString().slice(0, 5): the hour and the minute of the day.
formatTime(t) == <<(t \div 3600000) % 24, (t \div 60000) % 60>>

NameChars == Lower \cup Upper \cup Digit \cup {"_"}

isValidAgentName(name) ==
    /\ Len(name) >= NAME_MIN_LENGTH
    /\ Len(name) <= NAME_MAX_LENGTH
    /\ \A i \in 1..Len(name) : name[i] \in NameChars

RECURSIVE SumViewers(_, _)
SumViewers(m, keys) ==
    IF keys = {} THEN 0
    ELSE LET k == CHOOSE x \in keys : TRUE
         IN (IF m[k].active THEN Cardinality(m[k].viewers) ELSE 0)
            + SumViewers(m, keys \ {k})

getCurrentViewerCount(m) == SumViewers(m, DOMAIN m)

\* updatePeakViewers() over the registry m it is called on.
updatePeakViewers(m) ==
    LET current == getCurrentViewerCount(m)
    IN [globalStats EXCEPT
          !.peakConcurrentViewers = IF current > @ THEN current ELSE @,
          !.allTimePeakViewers = IF current > @ THEN current ELSE @]

-----------------------------------------------------------------------------
(* Rate limiting: each check returns its verdict and the table it leaves *)

\* A limiter that compares with > where the code has >=: one call too many.
checkStreamRateLimitLate(agentName) ==
    IF agentName \notin DOMAIN rateLimits \/ now > rateLimits[agentName].resetTime
    THEN [ok |-> TRUE,
          table |-> MapSet(rateLimits, agentName,
                           [count |-> 1, resetTime |-> now + STREAM_RATE_WINDOW])]
    ELSE IF rateLimits[agentName].count > STREAM_RATE_MAX
    THEN [ok |-> FALSE, table |-> rateLimits]
    ELSE [ok |-> TRUE,
          table |-> [rateLimits EXCEPT ![agentName].count = @ + 1]]

checkStreamRateLimit(agentName) ==
    IF agentName \notin DOMAIN rateLimits \/ now > rateLimits[agentName].resetTime
    THEN [ok |-> TRUE,
          table |-> MapSet(rateLimits, agentName,
                           [count |-> 1, resetTime |-> now + STREAM_RATE_WINDOW])]
    ELSE IF rateLimits[agentName].count >= STREAM_RATE_MAX
    THEN [ok |-> FALSE, table |-> rateLimits]
    ELSE [ok |-> TRUE,
          table |-> [rateLimits EXCEPT ![agentName].count = @ + 1]]

checkIPConnectionLimit(ip) ==
    IF ip \notin DOMAIN ipConnectionCounts \/ now > ipConnectionCounts[ip].resetTime
    THEN [ok |-> TRUE,
          table |-> MapSet(ipConnectionCounts, ip,
                           [count |-> 1, resetTime |-> now + IP_CONN_WINDOW])]
    ELSE IF ipConnectionCounts[ip].count >= IP_CONN_MAX
    THEN [ok |-> FALSE, table |-> ipConnectionCounts]
    ELSE [ok |-> TRUE,
          table |-> [ipConnectionCounts EXCEPT ![ip].count = @ + 1]]

\* A limiter that never closes its window: the count is not compared.
checkIPStreamCreationLimitOpen(ip) ==
    IF ip \notin DOMAIN ipStreamCreation \/ now > ipStreamCreation[ip].resetTime
    THEN [ok |-> TRUE,
          table |-> MapSet(ipStreamCreation, ip,
                           [count |-> 1, resetTime |-> now + IP_CREATE_WINDOW])]
    ELSE [ok |-> TRUE,
          table |-> [ipStreamCreation EXCEPT ![ip].count = @ + 1]]

checkIPStreamCreationLimit(ip) ==
    IF ip \notin DOMAIN ipStreamCreation \/ now > ipStreamCreation[ip].resetTime
    THEN [ok |-> TRUE,
          table |-> MapSet(ipStreamCreation, ip,
                           [count |-> 1, resetTime |-> now + IP_CREATE_WINDOW])]
    ELSE IF ipStreamCreation[ip].count >= IP_CREATE_MAX
    THEN [ok |-> FALSE, table |-> ipStreamCreation]
    ELSE [ok |-> TRUE,
          table |-> [ipStreamCreation EXCEPT ![ip].count = @ + 1]]

-----------------------------------------------------------------------------
(* Responses *)

NoName == <<>>
NoIP == "-"
NoConn == 0

Resp(op, name, ip, conn, reqToken, code, result, token) ==
    [op |-> op, name |-> name, ip |-> ip, conn |-> conn, reqToken |-> reqToken,
     code |-> code, result |-> result, token |-> token]

-----------------------------------------------------------------------------
(* Events.  An event is its socket.io name, the stream it belongs to and    *)
(* its payload; an emit call is the set of connections it reaches, the way  *)
(* it was addressed ("room" or "socket") and the event.                     *)

NoData == <<>>

Event(ev, name, data) == [ev |-> ev, name |-> name, data |-> data]

\* The connections in the room stream:<agentName>, given the rooms rs.
Room(rs, agentName) == {c \in DOMAIN rs : agentName \in rs[c]}

\* An emit to the viewers of the session instead of the room.
roomEmitViewers(rs, agentName, ev, data) ==
    [to |-> IF agentName \in DOMAIN streams THEN streams[agentName].viewers ELSE {},
     via |-> "room", e |-> Event(ev, agentName, data)]

\* io.to(`stream:${agentName}`).emit(ev, data)
roomEmit(rs, agentName, ev, data) ==
    [to |-> Room(rs, agentName), via |-> "room", e |-> Event(ev, agentName, data)]

\* socket.emit(ev, data)
socketEmit(c, agentName, ev, data) ==
    [to |-> {c}, via |-> "socket", e |-> Event(ev, agentName, data)]

\* A delivery that hands a connection its newest event first.
RECURSIVE DeliverNewestFirst(_, _)
DeliverNewestFirst(boxes, out) ==
    IF out = <<>> THEN boxes
    ELSE DeliverNewestFirst(
            [c \in DOMAIN boxes |->
                IF c \in Head(out).to THEN <<Head(out).e>> \o boxes[c]
                ELSE boxes[c]],
            Tail(out))

\* The inboxes after the emit calls out, in the order of the calls.
RECURSIVE Deliver(_, _)
Deliver(boxes, out) ==
    IF out = <<>> THEN boxes
    ELSE Deliver([c \in DOMAIN boxes |->
                    IF c \in Head(out).to THEN Append(boxes[c], Head(out).e)
                    ELSE boxes[c]],
                 Tail(out))

\* The handler made the emit calls out.
Emits(out) == emits' = out /\ inbox' = Deliver(inbox, out)

-----------------------------------------------------------------------------
(* POST /api/stream/:agentname/send *)

\* !text || typeof text !== 'string'
textMissing(text) == ~text.isString \/ text.chars = <<>>

textTooLong(text) == Len(text.chars) > MAX_TEXT_LENGTH

\* const { text, type = 'log' } = req.body
typeOf(type) == IF type = "absent" THEN "log" ELSE type

validType(type) == type \in {"log", "tool", "thought"}

\* A comparison that lets a request without a token through.
tokenMatchesLoose(stream, token) == token = stream.token \/ token = NoToken

\* A comparison that asks only for a token to be present.
tokenMatchesAny(stream, token) == token # NoToken

tokenMatches(stream, token) == token = stream.token

newLine(text, type) ==
    [time |-> formatTime(now), text |-> escapeHtml(text.chars), type |-> type]

\* The session a first send creates, before its line is added.
newStream(newToken) ==
    [token |-> newToken, active |-> TRUE, lines |-> <<>>, viewers |-> {},
     startedAt |-> now, lastActivity |-> now,
     peakViewers |-> 0, totalMessages |-> 0]

\* A push that drops the newest line, not the oldest, from a full list.
pushLineKeepOldest(lines, line) ==
    IF Len(lines) >= MAX_LINES THEN lines ELSE Append(lines, line)

\* A push that shifts a line out one line early, at 500 and not above it.
pushLineShiftEarly(lines, line) ==
    LET pushed == Append(lines, line)
    IN IF Len(pushed) >= MAX_LINES THEN Tail(pushed) ELSE pushed

\* lines.push(line), then shift() when more than 500 are held.
pushLine(lines, line) ==
    LET pushed == Append(lines, line)
    IN IF Len(pushed) > MAX_LINES THEN Tail(pushed) ELSE pushed

\* A send that leaves an offline session offline.
reactivateNever(stream) == stream

\* Reactivate if offline.
reactivate(stream) ==
    IF ~stream.active
    THEN [stream EXCEPT !.active = TRUE, !.startedAt = now]
    ELSE stream

\* A send that resumes the session and notes the activity before it asks
\* the limiter.
SendResumeEarly(agentName, token, text, type, clientIP) ==
    LET ty == typeOf(type)
        reply(code, result, tok) ==
            Resp("send", agentName, clientIP, NoConn, token, code, result, tok)
        reject(code, result) ==
            /\ last' = reply(code, result, NoToken)
            /\ Emits(<<>>)
            /\ UNCHANGED <<streams, rateLimits, ipStreamCreation, globalStats,
                           tokensIssued>>
        lineEmit == roomEmit(rooms, agentName, "stream:line", newLine(text, ty))
    IN
    /\ UNCHANGED <<now, chatMessages, bannedAgents, ipConnectionCounts,
                   sockets, rooms>>
    /\ IF ~isValidAgentName(agentName) THEN reject(400, "invalid_name")
       ELSE IF agentName \in bannedAgents THEN reject(403, "banned")
       ELSE IF textMissing(text) THEN reject(400, "invalid_text")
       ELSE IF textTooLong(text) THEN reject(400, "invalid_text")
       ELSE IF ~validType(ty) THEN reject(400, "invalid_type")
       ELSE IF agentName \notin DOMAIN streams
       THEN LET limit == checkIPStreamCreationLimit(clientIP)
            IN IF ~limit.ok
               THEN /\ last' = reply(429, "rate_limited", NoToken)
                    /\ Emits(<<>>)
                    /\ ipStreamCreation' = limit.table
                    /\ UNCHANGED <<streams, rateLimits, globalStats, tokensIssued>>
               ELSE LET newToken == generateToken
                        stream == newStream(newToken)
                    IN /\ ipStreamCreation' = limit.table
                       /\ tokensIssued' = newToken
                       /\ streams' = MapSet(streams, agentName,
                             [stream EXCEPT
                                !.lines = Append(@, newLine(text, ty)),
                                !.totalMessages = @ + 1])
                       /\ globalStats' = [globalStats EXCEPT
                                            !.totalStreamsToday = @ + 1,
                                            !.totalMessagesToday = @ + 1]
                       /\ Emits(<<lineEmit>>)
                       /\ last' = reply(200, "created", newToken)
                       /\ UNCHANGED rateLimits
       ELSE IF ~tokenMatches(streams[agentName], token)
       THEN reject(401, "invalid_token")
       ELSE LET limit == checkStreamRateLimit(agentName)
            IN IF ~limit.ok
               THEN /\ last' = reply(429, "rate_limited", NoToken)
                    /\ Emits(<<>>)
                    /\ rateLimits' = limit.table
                    /\ streams' = [streams EXCEPT ![agentName] =
                          [reactivate(@) EXCEPT !.lastActivity = now]]
                    /\ UNCHANGED <<ipStreamCreation, globalStats, tokensIssued>>
               ELSE LET stream == reactivate(streams[agentName])
                    IN /\ rateLimits' = limit.table
                       /\ streams' = [streams EXCEPT ![agentName] =
                             [stream EXCEPT
                                !.lines = pushLine(@, newLine(text, ty)),
                                !.totalMessages = @ + 1,
                                !.lastActivity = now]]
                       /\ globalStats' = [globalStats EXCEPT
                                            !.totalMessagesToday = @ + 1]
                       /\ Emits(<<lineEmit>>)
                       /\ last' = reply(200, "accepted", NoToken)
                       /\ UNCHANGED <<ipStreamCreation, tokensIssued>>

Send(agentName, token, text, type, clientIP) ==
    LET ty == typeOf(type)
        reply(code, result, tok) ==
            Resp("send", agentName, clientIP, NoConn, token, code, result, tok)
        reject(code, result) ==
            /\ last' = reply(code, result, NoToken)
            /\ Emits(<<>>)
            /\ UNCHANGED <<streams, rateLimits, ipStreamCreation, globalStats,
                           tokensIssued>>
        lineEmit == roomEmit(rooms, agentName, "stream:line", newLine(text, ty))
    IN
    /\ UNCHANGED <<now, chatMessages, bannedAgents, ipConnectionCounts,
                   sockets, rooms>>
    /\ IF ~isValidAgentName(agentName) THEN reject(400, "invalid_name")
       ELSE IF agentName \in bannedAgents THEN reject(403, "banned")
       ELSE IF textMissing(text) THEN reject(400, "invalid_text")
       ELSE IF textTooLong(text) THEN reject(400, "invalid_text")
       ELSE IF ~validType(ty) THEN reject(400, "invalid_type")
       ELSE IF agentName \notin DOMAIN streams
       THEN LET limit == checkIPStreamCreationLimit(clientIP)
            IN IF ~limit.ok
               THEN /\ last' = reply(429, "rate_limited", NoToken)
                    /\ Emits(<<>>)
                    /\ ipStreamCreation' = limit.table
                    /\ UNCHANGED <<streams, rateLimits, globalStats, tokensIssued>>
               ELSE LET newToken == generateToken
                        stream == newStream(newToken)
                    IN /\ ipStreamCreation' = limit.table
                       /\ tokensIssued' = newToken
                       /\ streams' = MapSet(streams, agentName,
                             [stream EXCEPT
                                !.lines = Append(@, newLine(text, ty)),
                                !.totalMessages = @ + 1])
                       /\ globalStats' = [globalStats EXCEPT
                                            !.totalStreamsToday = @ + 1,
                                            !.totalMessagesToday = @ + 1]
                       /\ Emits(<<lineEmit>>)
                       /\ last' = reply(200, "created", newToken)
                       /\ UNCHANGED rateLimits
       ELSE IF ~tokenMatches(streams[agentName], token)
       THEN reject(401, "invalid_token")
       ELSE LET limit == checkStreamRateLimit(agentName)
            IN IF ~limit.ok
               THEN /\ last' = reply(429, "rate_limited", NoToken)
                    /\ Emits(<<>>)
                    /\ rateLimits' = limit.table
                    /\ UNCHANGED <<streams, ipStreamCreation, globalStats,
                                   tokensIssued>>
               ELSE LET stream == reactivate(streams[agentName])
                    IN /\ rateLimits' = limit.table
                       /\ streams' = [streams EXCEPT ![agentName] =
                             [stream EXCEPT
                                !.lines = pushLine(@, newLine(text, ty)),
                                !.totalMessages = @ + 1,
                                !.lastActivity = now]]
                       /\ globalStats' = [globalStats EXCEPT
                                            !.totalMessagesToday = @ + 1]
                       /\ Emits(<<lineEmit>>)
                       /\ last' = reply(200, "accepted", NoToken)
                       /\ UNCHANGED <<ipStreamCreation, tokensIssued>>

-----------------------------------------------------------------------------
(* POST /api/stream/:agentname/rotate *)

Rotate(agentName, oldToken) ==
    LET reply(code, result, tok) ==
            Resp("rotate", agentName, NoIP, NoConn, oldToken, code, result, tok)
    IN
    /\ UNCHANGED <<now, chatMessages, bannedAgents, rateLimits,
                   ipConnectionCounts, ipStreamCreation, globalStats,
                   sockets, rooms>>
    /\ Emits(<<>>)
    /\ IF agentName \notin DOMAIN streams
       THEN /\ last' = reply(404, "not_found", NoToken)
            /\ UNCHANGED <<streams, tokensIssued>>
       ELSE IF ~tokenMatches(streams[agentName], oldToken)
       THEN /\ last' = reply(401, "invalid_token", NoToken)
            /\ UNCHANGED <<streams, tokensIssued>>
       ELSE LET newToken == generateToken
            IN /\ tokensIssued' = newToken
               /\ streams' = [streams EXCEPT ![agentName].token = newToken]
               /\ last' = reply(200, "rotated", newToken)

-----------------------------------------------------------------------------
(* Admin endpoints (requireAdmin has let the request through) *)

\* An end that, like the ban, publishes only when the session is active.
EndStreamIfActive(agentName) ==
    LET reply(code, result) ==
            Resp("end", agentName, NoIP, NoConn, NoToken, code, result, NoToken)
    IN
    /\ UNCHANGED <<now, chatMessages, bannedAgents, rateLimits,
                   ipConnectionCounts, ipStreamCreation, globalStats,
                   tokensIssued, sockets, rooms>>
    /\ IF agentName \notin DOMAIN streams
       THEN /\ last' = reply(404, "not_found")
            /\ Emits(<<>>)
            /\ UNCHANGED streams
       ELSE /\ streams' = [streams EXCEPT ![agentName].active = FALSE]
            /\ Emits(IF streams[agentName].active
                     THEN <<roomEmit(rooms, agentName, "stream:offline", NoData)>>
                     ELSE <<>>)
            /\ last' = reply(200, "ended")

EndStream(agentName) ==
    LET reply(code, result) ==
            Resp("end", agentName, NoIP, NoConn, NoToken, code, result, NoToken)
    IN
    /\ UNCHANGED <<now, chatMessages, bannedAgents, rateLimits,
                   ipConnectionCounts, ipStreamCreation, globalStats,
                   tokensIssued, sockets, rooms>>
    /\ IF agentName \notin DOMAIN streams
       THEN /\ last' = reply(404, "not_found")
            /\ Emits(<<>>)
            /\ UNCHANGED streams
       ELSE /\ streams' = [streams EXCEPT ![agentName].active = FALSE]
            /\ Emits(<<roomEmit(rooms, agentName, "stream:offline", NoData)>>)
            /\ last' = reply(200, "ended")

\* A ban that leaves the session as it is.
forceOfflineNever(m, agentName) == m

\* End stream if active.
forceOffline(m, agentName) ==
    IF agentName \in DOMAIN m /\ m[agentName].active
    THEN [m EXCEPT ![agentName].active = FALSE]
    ELSE m

Ban(agentName) ==
    /\ bannedAgents' = bannedAgents \cup {agentName}
    /\ streams' = forceOffline(streams, agentName)
    /\ Emits(IF agentName \in DOMAIN streams /\ streams[agentName].active
             THEN <<roomEmit(rooms, agentName, "stream:offline", NoData)>>
             ELSE <<>>)
    /\ last' = Resp("ban", agentName, NoIP, NoConn, NoToken, 200, "banned_ok",
                    NoToken)
    /\ UNCHANGED <<now, chatMessages, rateLimits, ipConnectionCounts,
                   ipStreamCreation, globalStats, tokensIssued, sockets, rooms>>

\* An unban that also resumes the session.
UnbanResume(agentName) ==
    /\ bannedAgents' = bannedAgents \ {agentName}
    /\ Emits(<<>>)
    /\ streams' = IF agentName \in DOMAIN streams
                  THEN [streams EXCEPT ![agentName].active = TRUE]
                  ELSE streams
    /\ last' = Resp("unban", agentName, NoIP, NoConn, NoToken, 200, "unbanned",
                    NoToken)
    /\ UNCHANGED <<now, chatMessages, rateLimits, ipConnectionCounts,
                   ipStreamCreation, globalStats, tokensIssued, sockets, rooms>>

Unban(agentName) ==
    /\ bannedAgents' = bannedAgents \ {agentName}
    /\ Emits(<<>>)
    /\ last' = Resp("unban", agentName, NoIP, NoConn, NoToken, 200, "unbanned",
                    NoToken)
    /\ UNCHANGED <<now, streams, chatMessages, rateLimits, ipConnectionCounts,
                   ipStreamCreation, globalStats, tokensIssued, sockets, rooms>>

-----------------------------------------------------------------------------
(* WebSocket handlers.  A socket's closure holds currentStream and          *)
(* lastChatTime; socket.io keeps its room membership and drops it on        *)
(* disconnect.                                                              *)

Conns == 1..MaxConns

NewSocket == [state |-> "none", ip |-> NoIP, currentStream |-> NoName,
              lastChatTime |-> 0]

SockResp(op, name, conn, result) ==
    Resp(op, name, NoIP, conn, NoToken, 0, result, NoToken)

\* 'anon_' + the first 8 hex digits of md5(socket.id)
hashSocketId(c) == <<"anon", c>>

RECURSIVE TrimLeft(_)
TrimLeft(text) == IF text # <<>> /\ Head(text) = " " THEN TrimLeft(Tail(text))
                  ELSE text

RECURSIVE TrimRight(_)
TrimRight(text) == IF text # <<>> /\ text[Len(text)] = " "
                   THEN TrimRight(SubSeq(text, 1, Len(text) - 1))
                   ELSE text

\* text.slice(0, 200).trim()
sliceTrim(text) ==
    TrimRight(TrimLeft(SubSeq(text, 1,
        IF Len(text) < MAX_CHAT_LENGTH THEN Len(text) ELSE MAX_CHAT_LENGTH)))

\* A push that shifts only at 202 messages: the log grows to 201.
pushChatLate(messages, message) ==
    LET pushed == Append(messages, message)
    IN IF Len(pushed) > MAX_CHAT_MESSAGES + 1 THEN Tail(pushed) ELSE pushed

\* messages.push(message), then shift() when more than 200 are held.
pushChat(messages, message) ==
    LET pushed == Append(messages, message)
    IN IF Len(pushed) > MAX_CHAT_MESSAGES THEN Tail(pushed) ELSE pushed

chatLog(agentName) ==
    IF agentName \in DOMAIN chatMessages THEN chatMessages[agentName] ELSE <<>>

\* io.on('connection')
Connect(c, clientIP) ==
    /\ sockets[c].state = "none"
    /\ LET limit == checkIPConnectionLimit(clientIP)
       IN /\ ipConnectionCounts' = limit.table
          /\ IF ~limit.ok
             THEN /\ sockets' = [sockets EXCEPT ![c] =
                        [@ EXCEPT !.state = "closed", !.ip = clientIP]]
                  /\ Emits(<<socketEmit(c, NoName, "error",
                                         "Too many connections")>>)
                  /\ last' = Resp("connect", NoName, clientIP, c, NoToken, 0,
                                  "too_many_connections", NoToken)
             ELSE /\ sockets' = [sockets EXCEPT ![c] =
                        [@ EXCEPT !.state = "open", !.ip = clientIP]]
                  /\ Emits(<<>>)
                  /\ last' = Resp("connect", NoName, clientIP, c, NoToken, 0,
                                  "connected", NoToken)
    /\ UNCHANGED <<now, streams, chatMessages, bannedAgents, rateLimits,
                   ipStreamCreation, globalStats, tokensIssued, rooms>>

\* A leave that keeps the connection in the viewer set.
leavePreviousKeep(c) == streams

\* A leave that empties the viewer set of the previous name.
leavePreviousAll(c) ==
    LET prev == sockets[c].currentStream
    IN IF prev # NoName /\ prev \in DOMAIN streams
       THEN [streams EXCEPT ![prev].viewers = {}]
       ELSE streams

\* Leave previous room if any: the registry after prevStream.viewers.delete.
leavePrevious(c) ==
    LET prev == sockets[c].currentStream
    IN IF prev # NoName /\ prev \in DOMAIN streams
       THEN [streams EXCEPT ![prev].viewers = @ \ {c}]
       ELSE streams

\* A capacity check that lets one viewer too many in.
atCapacityOver(stream) == Cardinality(stream.viewers) > MAX_VIEWERS_PER_STREAM

\* stream.viewers.size >= MAX_VIEWERS_PER_STREAM
atCapacity(stream) == Cardinality(stream.viewers) >= MAX_VIEWERS_PER_STREAM

\* socket.on('join')
\* A peak that follows the viewer count down as well as up.
peakAfterCount(peak, size) == size

\* if (stream.viewers.size > stream.stats.peakViewers) peakViewers = size
peakAfter(peak, size) == IF size > peak THEN size ELSE peak

Join(c, agentName) ==
    /\ sockets[c].state = "open"
    /\ UNCHANGED <<now, chatMessages, bannedAgents, rateLimits,
                   ipConnectionCounts, ipStreamCreation, tokensIssued>>
    /\ IF agentName = NoName \/ ~isValidAgentName(agentName)
       THEN /\ last' = SockResp("join", agentName, c, "invalid_name")
            /\ Emits(<<socketEmit(c, agentName, "error", "Invalid stream name")>>)
            /\ UNCHANGED <<streams, globalStats, sockets, rooms>>
       ELSE LET prev == sockets[c].currentStream
                left == leavePrevious(c)
                \* socket.leave(`stream:${currentStream}`)
                roomsLeft == IF prev # NoName
                             THEN [rooms EXCEPT ![c] = @ \ {prev}] ELSE rooms
                leftEmits ==
                    IF prev # NoName /\ prev \in DOMAIN streams
                    THEN <<roomEmit(roomsLeft, prev, "viewer:count",
                                    Cardinality(left[prev].viewers))>>
                    ELSE <<>>
                \* socket.join(`stream:${agentName}`)
                roomsJoined == [roomsLeft EXCEPT ![c] = @ \cup {agentName}]
            IN /\ sockets' = [sockets EXCEPT ![c].currentStream = agentName]
               /\ rooms' = roomsJoined
               /\ IF agentName \in DOMAIN streams
                  THEN IF atCapacity(left[agentName])
                       THEN /\ streams' = left
                            /\ Emits(leftEmits \o
                                 <<socketEmit(c, agentName, "error",
                                     "Stream at capacity, try again later")>>)
                            /\ last' = SockResp("join", agentName, c, "capacity")
                            /\ UNCHANGED globalStats
                       ELSE LET size == Cardinality(left[agentName].viewers \cup {c})
                                joined == [left EXCEPT ![agentName] =
                                    [@ EXCEPT
                                       !.viewers = @ \cup {c},
                                       !.peakViewers = peakAfter(@, size)]]
                            IN /\ streams' = joined
                               /\ globalStats' = updatePeakViewers(joined)
                               /\ Emits(leftEmits \o
                                    <<socketEmit(c, agentName, "stream:init",
                                                 joined[agentName].lines),
                                      socketEmit(c, agentName, "chat:init",
                                                 chatLog(agentName)),
                                      roomEmit(roomsJoined, agentName,
                                               "viewer:count", size)>> \o
                                    (IF ~joined[agentName].active
                                     THEN <<socketEmit(c, agentName,
                                                "stream:offline", NoData)>>
                                     ELSE <<>>))
                               /\ last' = SockResp("join", agentName, c, "joined")
                  ELSE /\ streams' = left
                       /\ Emits(leftEmits \o
                            <<socketEmit(c, agentName, "stream:init", <<>>),
                              socketEmit(c, agentName, "chat:init", <<>>)>>)
                       /\ last' = SockResp("join", agentName, c, "joined_unknown")
                       /\ UNCHANGED globalStats

\* An offline test that lets the chat of an offline session through.
streamOfflineAbsent(cur) == cur \notin DOMAIN streams

\* !stream || !stream.active
streamOffline(cur) == cur \notin DOMAIN streams \/ ~streams[cur].active

\* A cooldown that ends one millisecond early.
coolingDownShort(c) == now - sockets[c].lastChatTime < CHAT_COOLDOWN - 1

\* now - lastChatTime < CHAT_COOLDOWN
coolingDown(c) == now - sockets[c].lastChatTime < CHAT_COOLDOWN

\* socket.on('chat:send')
ChatSend(c, text) ==
    LET cur == sockets[c].currentStream
        sanitizedText == escapeHtml(sliceTrim(text.chars))
        message == [user |-> hashSocketId(c), text |-> sanitizedText,
                    time |-> now]
    IN
    /\ sockets[c].state = "open"
    /\ UNCHANGED <<now, streams, bannedAgents, rateLimits, ipConnectionCounts,
                   ipStreamCreation, globalStats, tokensIssued, rooms>>
    /\ IF cur = NoName \/ textMissing(text)
       THEN /\ last' = SockResp("chat", cur, c, "ignored")
            /\ Emits(<<>>)
            /\ UNCHANGED <<chatMessages, sockets>>
       ELSE IF streamOffline(cur)
       THEN /\ last' = SockResp("chat", cur, c, "offline")
            /\ Emits(<<socketEmit(c, cur, "error", "Stream is offline")>>)
            /\ UNCHANGED <<chatMessages, sockets>>
       ELSE IF coolingDown(c)
       THEN /\ last' = SockResp("chat", cur, c, "cooldown")
            /\ Emits(<<socketEmit(c, cur, "error",
                   "Slow down! Wait a few seconds between messages.")>>)
            /\ UNCHANGED <<chatMessages, sockets>>
       ELSE /\ sockets' = [sockets EXCEPT ![c].lastChatTime = now]
            /\ IF sanitizedText = <<>>
               THEN /\ last' = SockResp("chat", cur, c, "empty")
                    /\ Emits(<<>>)
                    /\ UNCHANGED chatMessages
               ELSE /\ chatMessages' =
                        MapSet(chatMessages, cur, pushChat(chatLog(cur), message))
                    /\ Emits(<<roomEmit(rooms, cur, "chat:message", message)>>)
                    /\ last' = SockResp("chat", cur, c, "sent")

\* socket.on('disconnect')
Disconnect(c) ==
    /\ sockets[c].state = "open"
    /\ sockets' = [sockets EXCEPT ![c].state = "closed"]
    /\ rooms' = [rooms EXCEPT ![c] = {}]
    /\ streams' = leavePrevious(c)
    /\ LET cur == sockets[c].currentStream
       IN Emits(IF cur # NoName /\ cur \in DOMAIN streams
                THEN <<roomEmit(rooms', cur, "viewer:count",
                                Cardinality(streams'[cur].viewers))>>
                ELSE <<>>)
    /\ last' = SockResp("disconnect", sockets[c].currentStream, c, "closed")
    /\ UNCHANGED <<now, chatMessages, bannedAgents, rateLimits,
                   ipConnectionCounts, ipStreamCreation, globalStats,
                   tokensIssued>>

-----------------------------------------------------------------------------
(* Cleanup and maintenance timers *)

TimerResp(op, result) ==
    Resp(op, NoName, NoIP, NoConn, NoToken, 0, result, NoToken)

\* A sweep that finds no session timed out.
timedOutNever(stream) == FALSE

\* A timeout test that does not look at the active flag.
timedOutAgain(stream) == now - stream.lastActivity > INACTIVE_TIMEOUT

timedOut(stream) == stream.active /\ now - stream.lastActivity > INACTIVE_TIMEOUT

\* One stream:offline per name of the set names.  The loop visits the Map
\* in insertion order; no connection is in two rooms, so the order across
\* names shows to none of them, and the model takes the names in any order.
RECURSIVE offlineEmits(_)
offlineEmits(names) ==
    IF names = {} THEN <<>>
    ELSE LET n == CHOOSE x \in names : TRUE
         IN <<roomEmit(rooms, n, "stream:offline", NoData)>>
              \o offlineEmits(names \ {n})

\* Check for inactive streams every minute.
SweepInactive ==
    /\ Emits(offlineEmits({n \in DOMAIN streams : timedOut(streams[n])}))
    /\ streams' = [n \in DOMAIN streams |->
                     IF timedOut(streams[n])
                     THEN [streams[n] EXCEPT !.active = FALSE]
                     ELSE streams[n]]
    /\ last' = TimerResp("sweep",
                 IF \E n \in DOMAIN streams : timedOut(streams[n])
                 THEN "timed_out" ELSE "idle")
    /\ UNCHANGED <<now, chatMessages, bannedAgents, rateLimits,
                   ipConnectionCounts, ipStreamCreation, globalStats,
                   tokensIssued, sockets, rooms>>

\* now.getHours() === 0 && now.getMinutes() === 0
isMidnightMinute(t) == (t \div 3600000) % 24 = 0 /\ (t \div 60000) % 60 = 0

\* Reset daily stats at midnight.
DailyReset ==
    /\ IF isMidnightMinute(now)
       THEN /\ Emits(<<>>)
            /\ globalStats' = [globalStats EXCEPT
                                 !.totalStreamsToday = 0,
                                 !.peakConcurrentViewers = 0,
                                 !.totalMessagesToday = 0,
                                 !.lastReset = now]
            /\ last' = TimerResp("daily", "reset")
       ELSE /\ last' = TimerResp("daily", "skipped")
            /\ Emits(<<>>)
            /\ UNCHANGED globalStats
    /\ UNCHANGED <<now, streams, chatMessages, bannedAgents, rateLimits,
                   ipConnectionCounts, ipStreamCreation, tokensIssued,
                   sockets, rooms>>

-----------------------------------------------------------------------------
(* The clock *)

\* Time passes: Date.now() moves forward to the instant t.
Advance(t) ==
    /\ t > now
    /\ now' = t
    /\ last' = TimerResp("clock", "advanced")
    /\ Emits(<<>>)
    /\ UNCHANGED <<streams, chatMessages, bannedAgents, rateLimits,
                   ipConnectionCounts, ipStreamCreation, globalStats,
                   tokensIssued, sockets, rooms>>

-----------------------------------------------------------------------------
(* The state after the module has loaded *)

Init ==
    /\ now = StartTime
    /\ streams = EmptyMap
    /\ chatMessages = EmptyMap
    /\ bannedAgents = {}
    /\ rateLimits = EmptyMap
    /\ ipConnectionCounts = EmptyMap
    /\ ipStreamCreation = EmptyMap
    /\ globalStats = [totalStreamsToday |-> 0, peakConcurrentViewers |-> 0,
                      allTimePeakViewers |-> 0, totalMessagesToday |-> 0,
                      lastReset |-> StartTime]
    /\ tokensIssued = 0
    /\ sockets = [c \in Conns |-> NewSocket]
    /\ rooms = [c \in Conns |-> {}]
    /\ inbox = [c \in Conns |-> <<>>]
    /\ emits = <<>>
    /\ last = Resp("start", NoName, NoIP, NoConn, NoToken, 0, "started", NoToken)

-----------------------------------------------------------------------------
(* The main model: every handler, on small inputs *)

Nova1 == <<"N","o","v","a","1">>
Bot_2 == <<"b","o","t","_","2">>
BadName == <<"b","a","d","@">>
ValidNames == {Nova1}
Names == ValidNames \cup {BadName}

IPs == {"ip1"}

TextHi == Str(<<"h","i">>)
TextTag == Str(<<"<","b",">">>)
TextBlank == Str(<<" "," ">>)
TextLong == Str([i \in 1..(MAX_TEXT_LENGTH + 1) |-> "x"])
Texts == {TextHi, TextTag, NotAString, TextLong}
ChatTexts == {TextHi, TextBlank, NotAString}

Types == {"thought", "absent", "bogus"}

\* Request bodies: {text, type}.
Body(text, type) == [text |-> text, type |-> type]
Bodies == {Body(TextHi, "absent"), Body(TextTag, "thought"),
           Body(NotAString, "absent"), Body(TextLong, "thought"),
           Body(TextHi, "bogus"), Body(NotAString, "bogus")}

\* A request carries no token, a token issued so far, or one never issued.
TokenInputs == 0..(tokensIssued + 1)

Instants == {StartTime + INACTIVE_TIMEOUT + 1}

\* The bounds stop a run only where a handler would grow the state.
MaySend(agentName, token) ==
    (agentName \in DOMAIN streams /\ tokenMatches(streams[agentName], token))
        => streams[agentName].totalMessages < MaxSends

MayRotate(agentName, oldToken) ==
    (agentName \in DOMAIN streams /\ tokenMatches(streams[agentName], oldToken))
        => tokensIssued - Cardinality(DOMAIN streams) < MaxRotations

MayChat(c) == Len(chatLog(sockets[c].currentStream)) < MaxChats

Next ==
    \/ \E n \in Names, tok \in TokenInputs, body \in Bodies, ip \in IPs :
          MaySend(n, tok) /\ Send(n, tok, body.text, body.type, ip)
    \/ \E n \in Names, tok \in TokenInputs : MayRotate(n, tok) /\ Rotate(n, tok)
    \/ \E n \in Names : EndStream(n)
    \/ \E n \in Names : Ban(n)
    \/ \E n \in Names : Unban(n)
    \/ \E c \in Conns, ip \in IPs : Connect(c, ip)
    \/ \E c \in Conns, n \in Names : Join(c, n)
    \/ \E c \in Conns, text \in ChatTexts : MayChat(c) /\ ChatSend(c, text)
    \/ \E c \in Conns : Disconnect(c)
    \/ SweepInactive
    \/ DailyReset
    \/ \E t \in Instants : Advance(t)

Spec == Init /\ [][Next]_vars

-----------------------------------------------------------------------------
(* The registry model: the HTTP handlers and the clock, no sockets *)

NextRegistry ==
    \/ \E n \in Names, tok \in TokenInputs, body \in Bodies, ip \in IPs :
          MaySend(n, tok) /\ Send(n, tok, body.text, body.type, ip)
    \/ \E n \in ValidNames, tok \in TokenInputs : MayRotate(n, tok) /\ Rotate(n, tok)
    \/ \E n \in ValidNames : EndStream(n)
    \/ \E n \in ValidNames : Ban(n)
    \/ \E n \in ValidNames : Unban(n)
    \/ SweepInactive
    \/ \E t \in Instants : Advance(t)

SpecRegistry == Init /\ [][NextRegistry]_vars

-----------------------------------------------------------------------------
(* Steps, as the response variable shows them: every action writes last'.  *)

SendStep == last'.op = "send"
RotateStep == last'.op = "rotate"

\* The send handled by this step found a session, and its token differs.
MismatchedSend ==
    /\ SendStep
    /\ last'.name \in DOMAIN streams
    /\ last'.reqToken # streams[last'.name].token

Rejections == {"invalid_name", "banned", "invalid_text", "invalid_type",
               "invalid_token", "rate_limited"}

-----------------------------------------------------------------------------
(* C2: a send to an existing session whose token differs from the session's *)
(* token leaves the session, the global stats and the name's rate window    *)
(* unchanged.                                                               *)

C2_MismatchedSendChangesNothing ==
    [][MismatchedSend =>
         /\ streams' = streams
         /\ globalStats' = globalStats
         /\ rateLimits' = rateLimits
         /\ last'.result \in Rejections
         /\ last'.token = NoToken]_vars

C2_Witness ==
    /\ last.op = "send"
    /\ last.result = "invalid_token"
    /\ last.name \in DOMAIN streams
    /\ last.reqToken \notin {NoToken, streams[last.name].token}
    /\ last.name \in DOMAIN rateLimits
    /\ streams[last.name].totalMessages > 1

-----------------------------------------------------------------------------
(* C3: as claimed, every send to an existing session whose token differs is *)
(* answered invalid_token (401), whatever its text, type and ban status.    *)

-----------------------------------------------------------------------------
(* C4: ban(name) on an active session sets active=false in the same step;   *)
(* while the name stays in the ban set, which only unban(name) ends, every  *)
(* send for it is answered banned, whatever its token, and changes neither  *)
(* the registry nor the stats: no line, no reactivation, no creation.       *)

C4_BanForcesOfflineAndRejects ==
    [][/\ last'.op = "ban" =>
            /\ last'.name \in bannedAgents'
            /\ last'.name \in DOMAIN streams => ~streams'[last'.name].active
       /\ (SendStep /\ isValidAgentName(last'.name)
                    /\ last'.name \in bannedAgents) =>
            /\ last'.result = "banned"
            /\ last'.code = 403
            /\ last'.token = NoToken
            /\ streams' = streams
            /\ globalStats' = globalStats
            /\ rateLimits' = rateLimits
       /\ \A n \in bannedAgents \ bannedAgents' :
            last'.op = "unban" /\ last'.name = n]_vars

\* A banned name's session was sent its own token and stayed offline.
C4_Witness ==
    /\ last.op = "send"
    /\ last.result = "banned"
    /\ last.name \in bannedAgents
    /\ last.name \in DOMAIN streams
    /\ last.reqToken = streams[last.name].token
    /\ ~streams[last.name].active

-----------------------------------------------------------------------------
(* C5: rotate with the current token swaps it for a fresh one in one step   *)
(* and returns it; any other rotate fails and changes nothing.  A token     *)
(* once replaced is never current again, and send and rotate accept the     *)
(* current token only.                                                      *)

C5_RotateSwapsToken ==
    [][/\ RotateStep =>
            LET n == last'.name
            IN IF n \in DOMAIN streams /\ last'.reqToken = streams[n].token
               THEN /\ last'.result = "rotated"
                    /\ last'.token # NoToken
                    /\ last'.token # streams[n].token
                    /\ \A m \in DOMAIN streams : last'.token # streams[m].token
                    /\ streams' = [streams EXCEPT ![n].token = last'.token]
               ELSE /\ last'.result =
                         IF n \in DOMAIN streams THEN "invalid_token"
                         ELSE "not_found"
                    /\ last'.token = NoToken
                    /\ streams' = streams
       \* once replaced, never current again
       /\ \A n \in DOMAIN streams :
            /\ n \in DOMAIN streams'
            /\ streams'[n].token # streams[n].token =>
                 /\ RotateStep /\ last'.name = n
                 /\ streams'[n].token > tokensIssued
                 /\ streams[n].token <= tokensIssued
       \* a send is accepted with the current token only, and the current
       \* token is never answered invalid_token
       /\ (SendStep /\ last'.name \in DOMAIN streams) =>
            /\ last'.result = "accepted"
                 => last'.reqToken = streams[last'.name].token
            /\ last'.result = "invalid_token"
                 => last'.reqToken # streams[last'.name].token
            /\ last'.result # "created"]_vars

\* After a rotation the old token was refused and the new one accepted.
C5_Witness ==
    /\ last.op = "send"
    /\ last.result = "accepted"
    /\ last.name \in DOMAIN streams
    /\ last.reqToken = streams[last.name].token
    /\ tokensIssued > Cardinality(DOMAIN streams)

-----------------------------------------------------------------------------
(* The creation model: clients on two addresses claim the names bot1, bot2, *)
(* ... in turn with first sends, repeat them on names already claimed, and  *)
(* the hour of the creation window passes.                                  *)

BotName(i) == <<"b","o","t">> \o Decimal(i)

NextBot == Cardinality(DOMAIN streams) + 1

\* The name claimed last and the next one to claim.
CreateNames ==
    {BotName(i) : i \in {NextBot - 1, NextBot} \cap 1..BurstNames}

CreateIPs == {"ip1", "ip2"}

\* No token, or a token that was never issued.
CreateTokens == {NoToken, tokensIssued + 1}

CreateBodies == {Body(TextHi, "absent"), Body(NotAString, "absent")}

\* A client refused for its address's limit waits for the end of the
\* creation window, or for the millisecond after it.
CreateInstants ==
    UNION {{ipStreamCreation[ip].resetTime, ipStreamCreation[ip].resetTime + 1} :
             ip \in {a \in DOMAIN ipStreamCreation :
                       ipStreamCreation[a].count >= IP_CREATE_MAX}}

NextCreate ==
    \/ \E n \in CreateNames, tok \in CreateTokens, body \in CreateBodies,
          ip \in CreateIPs : Send(n, tok, body.text, body.type, ip)
    \/ Ban(BotName(NextBot))
    \/ Unban(BotName(NextBot))
    \/ \E t \in CreateInstants : Advance(t)

SpecCreate == Init /\ [][NextCreate]_vars

\* checkIPStreamCreationLimit(ip) would refuse: the window is open and full.
CreationLimitReached(ip) ==
    /\ ip \in DOMAIN ipStreamCreation
    /\ now <= ipStreamCreation[ip].resetTime
    /\ ipStreamCreation[ip].count >= IP_CREATE_MAX

\* The send handled by this step found no session under a valid name.
FirstSend ==
    /\ SendStep
    /\ isValidAgentName(last'.name)
    /\ last'.name \notin DOMAIN streams

-----------------------------------------------------------------------------
(* C1: as claimed, first sends for a valid, unbanned name that has no       *)
(* session always create its session: the first of them handled, when its   *)
(* text and type are valid, leaves the name with a session.                 *)

C1_Original ==
    [][(FirstSend /\ last'.name \notin bannedAgents
                  /\ last'.result \notin {"invalid_text", "invalid_type"})
          => last'.name \in DOMAIN streams']_vars

\* C1, amended: first sends never create a second session.  For a valid,
\* unbanned name with no session, a first send with valid text and type from
\* an address that has not used up its creation limit is answered
\* created{token}, that token is new and is the stored session token, and no
\* other session changes; from an address at its limit it is answered
\* rate_limited and creates nothing.  Every send without a token for a name
\* that has a session is rejected and leaves the registry unchanged, and no
\* session is ever removed, so at most one send per name is answered created.
C1_AtMostOneCreation ==
    [][/\ (FirstSend /\ last'.name \notin bannedAgents
                     /\ last'.result \notin {"invalid_text", "invalid_type"}) =>
            IF CreationLimitReached(last'.ip)
            THEN /\ last'.result = "rate_limited"
                 /\ streams' = streams
            ELSE /\ last'.result = "created"
                 /\ last'.name \in DOMAIN streams'
       /\ (SendStep /\ last'.result = "created") =>
            /\ last'.name \notin DOMAIN streams
            /\ DOMAIN streams' = DOMAIN streams \cup {last'.name}
            /\ last'.token # NoToken
            /\ streams'[last'.name].token = last'.token
            /\ \A m \in DOMAIN streams :
                 streams'[m] = streams[m] /\ streams[m].token # last'.token
       /\ (SendStep /\ last'.name \in DOMAIN streams
                    /\ last'.reqToken = NoToken) =>
            /\ last'.result \in Rejections
            /\ last'.token = NoToken
            /\ streams' = streams
       /\ (SendStep /\ last'.result # "created") =>
            DOMAIN streams' = DOMAIN streams
       /\ \A m \in DOMAIN streams : m \in DOMAIN streams']_vars

\* A second first send for a name just claimed was refused.
C1_Witness ==
    /\ last.op = "send"
    /\ last.reqToken = NoToken
    /\ last.result = "invalid_token"
    /\ last.name \in DOMAIN streams
    /\ streams[last.name].totalMessages = 1
    /\ Len(streams[last.name].lines) = 1

-----------------------------------------------------------------------------
(* C8: per client address at most 10 sessions are created within one       *)
(* 3600 s creation window.  The window's count is 1 at the creation that    *)
(* opens it, grows by one with every other creation and never passes 10; a *)
(* creating send from an address whose window is open and full is answered  *)
(* rate_limited (429) without a token and changes neither the registry, the *)
(* global stats nor the window.                                             *)

C8_CreationLimit ==
    [][/\ (SendStep /\ last'.result = "created") =>
            LET ip == last'.ip
            IN /\ ip \in DOMAIN ipStreamCreation'
               /\ ipStreamCreation'[ip].count <= IP_CREATE_MAX
               /\ IF ip \in DOMAIN ipStreamCreation
                     /\ now <= ipStreamCreation[ip].resetTime
                  THEN ipStreamCreation'[ip] =
                         [ipStreamCreation[ip] EXCEPT !.count = @ + 1]
                  ELSE ipStreamCreation'[ip] =
                         [count |-> 1, resetTime |-> now + IP_CREATE_WINDOW]
               /\ \A other \in DOMAIN ipStreamCreation \ {ip} :
                    ipStreamCreation'[other] = ipStreamCreation[other]
       /\ (FirstSend /\ CreationLimitReached(last'.ip)) =>
            /\ last'.result # "created"
            /\ last'.result \notin {"banned", "invalid_text", "invalid_type"}
                 => last'.result = "rate_limited" /\ last'.code = 429
            /\ last'.token = NoToken
            /\ streams' = streams
            /\ globalStats' = globalStats
            /\ tokensIssued' = tokensIssued
            /\ ipStreamCreation' = ipStreamCreation]_vars

\* The 11th creating send of an address inside its window was refused while
\* the other address could still create.
C8_Witness ==
    /\ last.op = "send"
    /\ last.result = "rate_limited"
    /\ last.name \notin DOMAIN streams
    /\ ipStreamCreation[last.ip].count = IP_CREATE_MAX
    /\ now <= ipStreamCreation[last.ip].resetTime
    /\ Cardinality(DOMAIN streams) > IP_CREATE_MAX

-----------------------------------------------------------------------------
(* The burst model: one producer claims Nova1 and sends "Spam 1", "Spam 2", *)
(* ... as fast as it can (test-agentcast-api.sh, test 10), now and then     *)
(* without its token or with a wrong one.  It waits for the end of the rate *)
(* window, or the millisecond after it, when its budget is used up, and     *)
(* also after its first sends.                                              *)

SpamText(i) == Str(<<"S","p","a","m"," ">> \o Decimal(i))

Sent(agentName) ==
    IF agentName \in DOMAIN streams THEN streams[agentName].totalMessages ELSE 0

BurstTokens ==
    {NoToken, tokensIssued + 1}
        \cup (IF Nova1 \in DOMAIN streams THEN {streams[Nova1].token} ELSE {})

MayBurst(token) ==
    (Nova1 \in DOMAIN streams /\ tokenMatches(streams[Nova1], token))
        => streams[Nova1].totalMessages < BurstSends

BurstInstants ==
    IF Nova1 \in DOMAIN rateLimits
       /\ (rateLimits[Nova1].count >= STREAM_RATE_MAX \/ Sent(Nova1) <= EarlySends)
    THEN {rateLimits[Nova1].resetTime, rateLimits[Nova1].resetTime + 1}
    ELSE {}

\* The window of agentName is open and its budget is used up.
Throttled(agentName) ==
    /\ agentName \in DOMAIN rateLimits
    /\ rateLimits[agentName].count >= STREAM_RATE_MAX
    /\ now <= rateLimits[agentName].resetTime

NextBurst ==
    \/ \E tok \in BurstTokens :
          MayBurst(tok) /\ Send(Nova1, tok, SpamText(Sent(Nova1) + 1), "log", "ip1")
    \/ \E t \in BurstInstants : Advance(t)

SpecBurst == Init /\ [][NextBurst]_vars

\* The send handled by this step passed validation and authentication: it
\* is a call of the per-name limiter.
LimitedSend ==
    /\ SendStep
    /\ last'.name \in DOMAIN streams
    /\ last'.reqToken = streams[last'.name].token
    /\ last'.result \notin {"banned", "invalid_text", "invalid_type"}

-----------------------------------------------------------------------------
(* C6: the per-name send limiter is the fixed-window counter with window    *)
(* 60 s and maximum 100.  A call with no window, or after the window's      *)
(* reset time, opens a window with count 1 that ends 60 s later and is      *)
(* allowed; otherwise a call at count 100 is denied and leaves the window   *)
(* as it is; otherwise the count grows by one and the call is allowed.      *)
(* Only such calls change the table, and only their own name's window.      *)

C6_FixedWindowCounter ==
    [][/\ LimitedSend =>
            LET n == last'.name
            IN /\ n \in DOMAIN rateLimits'
               /\ rateLimits'[n].count <= 100
               /\ IF n \notin DOMAIN rateLimits \/ now > rateLimits[n].resetTime
                  THEN /\ rateLimits'[n] = [count |-> 1, resetTime |-> now + 60000]
                       /\ last'.result = "accepted"
                  ELSE IF rateLimits[n].count >= 100
                  THEN /\ rateLimits' = rateLimits
                       /\ last'.result = "rate_limited"
                       /\ last'.code = 429
                  ELSE /\ rateLimits'[n] = [count |-> rateLimits[n].count + 1,
                                            resetTime |-> rateLimits[n].resetTime]
                       /\ last'.result = "accepted"
               /\ \A m \in DOMAIN rateLimits \ {n} :
                    m \in DOMAIN rateLimits' /\ rateLimits'[m] = rateLimits[m]
       /\ ~LimitedSend => rateLimits' = rateLimits]_vars

\* A window was used up, it elapsed, and the next call opened a new one.
C6_Witness ==
    /\ last.op = "send"
    /\ last.result = "accepted"
    /\ Nova1 \in DOMAIN rateLimits
    /\ rateLimits[Nova1].count = 1
    /\ rateLimits[Nova1].resetTime = now + 60000
    /\ Sent(Nova1) = 102

-----------------------------------------------------------------------------
(* C7: a stream accepts at most 100 messages per minute.  No session goes   *)
(* offline in the burst model, so startedAt is the time of creation, and    *)
(* while all its lines are stored each of them is a send accepted since: a  *)
(* session created less than 60 s ago holds at most 100 messages.           *)

C7_AtMost100PerMinute ==
    \A n \in DOMAIN streams :
        (now - streams[n].startedAt < 60000
            /\ Len(streams[n].lines) = streams[n].totalMessages)
          => streams[n].totalMessages <= 100

-----------------------------------------------------------------------------
(* C9: a session never holds more than 500 lines.  An accepted send to a    *)
(* session appends its line last; when the session already holds 500 lines  *)
(* exactly the oldest is dropped and the others keep their order.           *)

C9_LinesBounded ==
    /\ [](\A n \in DOMAIN streams : Len(streams[n].lines) <= 500)
    /\ [][(SendStep /\ last'.result = "accepted") =>
            LET n == last'.name
                old == streams[n].lines
                new == streams'[n].lines
                line == [time |-> formatTime(now),
                         text |-> <<"S","p","a","m"," ">>
                                    \o Decimal(streams[n].totalMessages + 1),
                         type |-> "log"]
            IN IF Len(old) = 500
               THEN /\ Len(new) = 500
                    /\ \A i \in 1..499 : new[i] = old[i + 1]
                    /\ new[500] = line
               ELSE new = old \o <<line>>]_vars

\* A full session took one more line.
C9_Witness ==
    /\ last.op = "send"
    /\ last.result = "accepted"
    /\ Len(streams[Nova1].lines) = 500
    /\ streams[Nova1].totalMessages > 501
    /\ streams[Nova1].lines[500].text
         = <<"S","p","a","m"," ">> \o Decimal(streams[Nova1].totalMessages)
    /\ streams[Nova1].lines[1].text
         = <<"S","p","a","m"," ">> \o Decimal(streams[Nova1].totalMessages - 499)

-----------------------------------------------------------------------------
(* The chat model: a producer claims Nova1 and keeps it alive, sending a    *)
(* line as soon as it is within one chat cooldown of its timeout; viewers   *)
(* connect and join it once before the chat starts and chat in turn, each   *)
(* waiting out its cooldown (or a millisecond less); the inactivity sweep   *)
(* runs at any time.                                                        *)

\* Every viewer writes once per cooldown: time for BurstChats messages.
ChatHorizon == (BurstChats \div MaxConns + 1) * CHAT_COOLDOWN

\* The viewer whose turn it is: the one after the author of the last message.
ChatTurn ==
    LET log == chatLog(Nova1)
    IN IF log = <<>> THEN 1 ELSE (log[Len(log)].user[2] % MaxConns) + 1

NeedsHeartbeat ==
    IF Nova1 \notin DOMAIN streams THEN TRUE
    ELSE IF ~streams[Nova1].active THEN TRUE
    ELSE now - streams[Nova1].lastActivity >= INACTIVE_TIMEOUT - CHAT_COOLDOWN

HeartbeatToken ==
    IF Nova1 \in DOMAIN streams THEN streams[Nova1].token ELSE NoToken

\* The end of the cooldown of the viewer whose turn it is; one of the
\* first messages is also tried 1 ms before.
ChatInstants ==
    IF sockets[ChatTurn].state = "open" /\ sockets[ChatTurn].lastChatTime > 0
    THEN {t \in {sockets[ChatTurn].lastChatTime + CHAT_COOLDOWN - 1,
                 sockets[ChatTurn].lastChatTime + CHAT_COOLDOWN} :
            /\ t <= StartTime + ChatHorizon
            /\ t < sockets[ChatTurn].lastChatTime + CHAT_COOLDOWN
                 => Len(chatLog(Nova1)) = EarlySends}
    ELSE {}

\* A viewer that was sent an error waits for another event before it
\* writes again.
Patient(c) ==
    IF inbox[c] = <<>> THEN TRUE ELSE inbox[c][Len(inbox[c])].ev # "error"

NextChat ==
    \/ NeedsHeartbeat
         /\ Send(Nova1, HeartbeatToken, SpamText(Sent(Nova1) + 1), "log", "ip1")
    \/ \E c \in Conns : /\ chatLog(Nova1) = <<>>
                        /\ (\A d \in 1..(c - 1) : sockets[d].state # "none")
                        /\ Connect(c, "ip1")
    \/ \E c \in Conns : /\ chatLog(Nova1) = <<>>
                        /\ sockets[c].currentStream = NoName
                        /\ Nova1 \in DOMAIN streams
                        /\ Join(c, Nova1)
    \/ Patient(ChatTurn) /\ ChatSend(ChatTurn, TextHi)
    \/ SweepInactive
    \/ \E t \in ChatInstants : ~NeedsHeartbeat /\ Advance(t)

SpecChat == Init /\ [][NextChat]_vars

-----------------------------------------------------------------------------
(* C10: a name's chat log never holds more than 200 messages.  An accepted  *)
(* chat message is appended last; when the log already holds 200 messages   *)
(* exactly the oldest is dropped and the others keep their order.           *)

C10_ChatBounded ==
    /\ [](\A n \in DOMAIN chatMessages : Len(chatMessages[n]) <= 200)
    /\ [][(last'.op = "chat" /\ last'.result = "sent") =>
            LET n == last'.name
                old == IF n \in DOMAIN chatMessages THEN chatMessages[n] ELSE <<>>
                new == chatMessages'[n]
                message == [user |-> hashSocketId(last'.conn),
                            text |-> <<"h","i">>, time |-> now]
            IN IF Len(old) = 200
               THEN /\ Len(new) = 200
                    /\ \A i \in 1..199 : new[i] = old[i + 1]
                    /\ new[200] = message
               ELSE new = old \o <<message>>]_vars

\* A full chat log took one more message: its oldest message is gone.
C10_Witness ==
    /\ last.op = "chat"
    /\ last.result = "sent"
    /\ Len(chatLog(Nova1)) = 200
    /\ chatLog(Nova1)[1].time > StartTime
    /\ chatLog(Nova1)[200].time = now

-----------------------------------------------------------------------------
(* The presence model: a producer claims Nova1 before the second            *)
(* connection opens; connections open and join Nova1 one after the other    *)
(* and close at any moment.  A connection that joined and is no viewer     *)
(* (the name had no session, or the session was at capacity) joins again    *)
(* after the next event it is sent, and connection 1 may join once more     *)
(* while it is a viewer of a full session.                                  *)

\* Every join sends the joiner one stream:init or one error.
JoinsOf(c) ==
    Cardinality({i \in 1..Len(inbox[c]) :
                   /\ inbox[c][i].ev \in {"stream:init", "error"}
                   /\ inbox[c][i].name # NoName})

\* The viewer set of a name, empty while it has no session.
viewersOf(agentName) ==
    IF agentName \in DOMAIN streams THEN streams[agentName].viewers ELSE {}

\* c has joined agentName, is no viewer of it, and was sent an event since.
MayRetry(c, agentName) ==
    /\ sockets[c].currentStream = agentName
    /\ agentName \in DOMAIN streams
    /\ c \notin streams[agentName].viewers
    /\ inbox[c][Len(inbox[c])].ev \notin {"error", "chat:init"}

\* c is connection 1, a viewer of agentName since its only join, and the
\* session is full.
MayRenew(c, agentName) ==
    /\ c = 1
    /\ JoinsOf(c) = 1
    /\ c \in viewersOf(agentName)
    /\ Cardinality(viewersOf(agentName)) >= MAX_VIEWERS_PER_STREAM

\* Connections are alike: they open, and join for the first time, in the
\* order of their numbers.
InTurn(c) ==
    /\ JoinsOf(c) = 0
    /\ \A d \in 1..(c - 1) : JoinsOf(d) > 0 \/ sockets[d].state = "closed"

NextPresence ==
    \/ Nova1 \notin DOMAIN streams /\ Send(Nova1, NoToken, TextHi, "absent", "ip1")
    \/ \E c \in Conns : /\ InTurn(c)
                        /\ c > 1 => Nova1 \in DOMAIN streams
                        /\ Connect(c, "ip1")
    \/ \E c \in Conns :
          /\ IF JoinsOf(c) = 0 THEN InTurn(c)
             ELSE MayRetry(c, Nova1) \/ MayRenew(c, Nova1)
          /\ Join(c, Nova1)
    \/ \E c \in Conns : Disconnect(c)

SpecPresence == Init /\ [][NextPresence]_vars

\* The events a name publishes to its subscribers while it runs.
LiveEvents == {"stream:line", "chat:message", "viewer:count", "stream:offline"}

\* The event tells its receiver that it has joined the event's name anew:
\* the first part of a snapshot, or the refusal for capacity.
JoinMark(e) ==
    \/ e.ev = "stream:init"
    \/ e.ev = "error" /\ e.data = "Stream at capacity, try again later"

\* box[j - 1], box[j] is a snapshot of agentName.
SnapshotAt(box, j, agentName) ==
    /\ j > 1
    /\ box[j - 1].ev = "stream:init" /\ box[j - 1].name = agentName
    /\ box[j].ev = "chat:init" /\ box[j].name = agentName

\* The i-th event of box follows a snapshot of its name, with no later join
\* in between.
AfterSnapshot(box, i) ==
    \E j \in 1..(i - 1) :
        /\ SnapshotAt(box, j, box[i].name)
        /\ \A k \in (j + 1)..(i - 1) : ~JoinMark(box[k])

-----------------------------------------------------------------------------
(* C11: every live event of a name (line, chat message, viewer count,       *)
(* offline) delivered to a connection is preceded, since the connection's   *)
(* latest join to that name, by the name's snapshot (stream:init, then      *)
(* chat:init).                                                              *)

C11_SnapshotFirst ==
    \A c \in Conns : \A i \in 1..Len(inbox[c]) :
        inbox[c][i].ev \in LiveEvents => AfterSnapshot(inbox[c], i)

-----------------------------------------------------------------------------
(* The snapshot model, in two halves.  In the first a producer at ip2       *)
(* claims Nova1 and sends BurstSends lines, waiting for the end of the rate *)
(* window when its budget is used up, while two connections join Nova1      *)
(* before its first line, after one of its first lines, or around the       *)
(* moment its line list gets full.  In the second a producer at ip1 keeps   *)
(* Nova1 alive while the two connections join it and write BurstChats chat  *)
(* messages in turn, each waiting out its cooldown; they may join Nova1     *)
(* again when the chat log has just got full.                               *)

\* Nothing has come from the address of the other half.
WatchMode == "ip1" \notin DOMAIN ipStreamCreation \cup DOMAIN ipConnectionCounts
ChatMode == "ip2" \notin DOMAIN ipStreamCreation \cup DOMAIN ipConnectionCounts

Watchers == {c \in Conns : c <= 2}

WatchPoints == {0, 1, EarlySends, MAX_LINES - 1, MAX_LINES, MAX_LINES + 1}

WatchInstants ==
    IF Nova1 \in DOMAIN rateLimits /\ rateLimits[Nova1].count >= STREAM_RATE_MAX
    THEN {rateLimits[Nova1].resetTime + 1}
    ELSE {}

\* The snapshots sent to c so far.
SnapshotsOf(c) ==
    Cardinality({i \in 1..Len(inbox[c]) : inbox[c][i].ev = "stream:init"})

NextWatch ==
    \/ /\ WatchMode
       /\ Sent(Nova1) < BurstSends
       /\ Send(Nova1, HeartbeatToken, SpamText(Sent(Nova1) + 1), "log", "ip2")
    \/ \E t \in WatchInstants : WatchMode /\ Advance(t)
    \/ \E c \in Watchers : /\ WatchMode
                           /\ Sent(Nova1) = 0
                           /\ (\A d \in 1..(c - 1) : sockets[d].state # "none")
                           /\ Connect(c, "ip2")
    \/ \E c \in Watchers : /\ WatchMode
                           /\ Sent(Nova1) \in WatchPoints
                           /\ sockets[c].currentStream = NoName
                           /\ (\A d \in 1..(c - 1) : sockets[d].currentStream # NoName)
                           /\ Join(c, Nova1)

\* The last k elements of a sequence.
Keep(seq, k) ==
    IF Len(seq) <= k THEN seq ELSE SubSeq(seq, Len(seq) - k + 1, Len(seq))

\* The data of the events ev of agentName in box after position j.
Since(box, j, ev, agentName) ==
    LET Wanted(e) == e.ev = ev /\ e.name = agentName
        found == SelectSeq(SubSeq(box, j + 1, Len(box)), Wanted)
    IN [i \in 1..Len(found) |-> found[i].data]

\* The chat messages written so far: connection 1 was sent them all.
ChatsSent == Len(Since(inbox[1], 0, "chat:message", Nova1))

\* The watchers write in turn.
TalkTurn ==
    LET log == chatLog(Nova1)
    IN IF log = <<>> THEN 1 ELSE (log[Len(log)].user[2] % Cardinality(Watchers)) + 1

\* The end of the cooldown of the watcher whose turn it is.
TalkInstants ==
    IF sockets[TalkTurn].lastChatTime > 0 /\ ChatsSent < BurstChats
    THEN {sockets[TalkTurn].lastChatTime + CHAT_COOLDOWN}
    ELSE {}

NextTalk ==
    \/ /\ ChatMode
       /\ NeedsHeartbeat
       /\ Send(Nova1, HeartbeatToken, SpamText(Sent(Nova1) + 1), "log", "ip1")
    \/ \E c \in Watchers : /\ ChatMode
                           /\ chatLog(Nova1) = <<>>
                           /\ (\A d \in 1..(c - 1) : sockets[d].state # "none")
                           /\ Connect(c, "ip1")
    \/ \E c \in Watchers : /\ ChatMode
                           /\ chatLog(Nova1) = <<>>
                           /\ sockets[c].currentStream = NoName
                           /\ Nova1 \in DOMAIN streams
                           /\ Join(c, Nova1)
    \/ \E c \in Watchers : /\ ChatMode
                           /\ ChatsSent = MAX_CHAT_MESSAGES
                           /\ SnapshotsOf(c) = 1
                           /\ Join(c, Nova1)
    \/ /\ ChatMode
       /\ Patient(TalkTurn)
       /\ ChatsSent < BurstChats
       /\ ChatSend(TalkTurn, TextHi)
    \/ \E t \in TalkInstants : ChatMode /\ ~NeedsHeartbeat /\ Advance(t)

NextSnapshot == NextWatch \/ NextTalk

SpecSnapshot == Init /\ [][NextSnapshot]_vars

\* The position of the answer to c's latest join, 0 if c never joined.
LatestJoin(box) ==
    LET marks == {j \in 1..Len(box) : JoinMark(box[j])}
    IN IF marks = {} THEN 0 ELSE CHOOSE j \in marks : \A k \in marks : k <= j

\* c was sent the snapshot of agentName at its latest join and is still
\* in the room of agentName.
HoldsSnapshot(c, agentName) ==
    /\ agentName \in rooms[c]
    /\ LatestJoin(inbox[c]) > 0
    /\ inbox[c][LatestJoin(inbox[c])].ev = "stream:init"
    /\ inbox[c][LatestJoin(inbox[c])].name = agentName

(* C12: for every connection that was sent the snapshot of a name at its    *)
(* latest join and is still subscribed to the name, the lines of the        *)
(* snapshot followed by the line events it was sent since, cut to the last  *)
(* 500, are the session's current lines; the chat messages of the snapshot  *)
(* followed by the chat events since, cut to the last 200, are the current  *)
(* chat log.                                                                *)
C12_NoLineLost ==
    \A c \in Conns : \A n \in ValidNames :
        HoldsSnapshot(c, n) =>
            LET box == inbox[c]
                j == LatestJoin(box)
                lines == IF n \in DOMAIN streams THEN streams[n].lines ELSE <<>>
            IN /\ Keep(box[j].data \o Since(box, j, "stream:line", n), 500) = lines
               /\ box[j + 1].ev = "chat:init"
               /\ Keep(box[j + 1].data \o Since(box, j, "chat:message", n), 200)
                    = chatLog(n)

\* A connection joined while the name had some lines, and the lines sent
\* since have pushed the first lines of its snapshot out of the list.
C12_Witness ==
    \E c \in Conns :
        /\ HoldsSnapshot(c, Nova1)
        /\ Len(inbox[c][LatestJoin(inbox[c])].data) \in 1..499
        /\ Len(inbox[c][LatestJoin(inbox[c])].data)
             + Len(Since(inbox[c], LatestJoin(inbox[c]), "stream:line", Nova1)) > 500
        /\ streams[Nova1].lines[1].text # inbox[c][LatestJoin(inbox[c])].data[1].text

\* Connection 1 joined again when the chat log was full, and the messages
\* written since have pushed the first messages of its snapshot out.
C12_ChatWitness ==
    /\ HoldsSnapshot(1, Nova1)
    /\ Len(inbox[1][LatestJoin(inbox[1]) + 1].data) = 200
    /\ Len(Since(inbox[1], LatestJoin(inbox[1]), "chat:message", Nova1)) > 1

\* box was extended by the events more, in this order.
Extended(box, boxAfter, more) == boxAfter = box \o more

-----------------------------------------------------------------------------
(* C14: for every name that has a session, the connections in the name's    *)
(* room (those that are sent its published events) are exactly the          *)
(* session's viewers.                                                       *)
C14_RoomMirrorsViewers ==
    \A n \in DOMAIN streams : Room(rooms, n) = streams[n].viewers

-----------------------------------------------------------------------------
(* The sweep model: a producer claims Nova1 and then Bot_2 and sends Nova1  *)
(* up to MaxSends lines; two connections open and join one of the names;    *)
(* time passes to the instant a session has been idle for INACTIVE_TIMEOUT, *)
(* or to the millisecond after it; the inactivity sweep runs at any time.   *)

SweepNames == {Nova1, Bot_2}

TokenOf(agentName) ==
    IF agentName \in DOMAIN streams THEN streams[agentName].token ELSE NoToken

SweepInstants ==
    {t \in UNION {{streams[n].lastActivity + INACTIVE_TIMEOUT,
                   streams[n].lastActivity + INACTIVE_TIMEOUT + 1} :
                  n \in DOMAIN streams} : t > now}

NextSweep ==
    \/ \E n \in SweepNames :
          /\ Sent(n) < MaxSends
          /\ (n = Bot_2 => Nova1 \in DOMAIN streams /\ Bot_2 \notin DOMAIN streams)
          /\ Send(n, TokenOf(n), TextHi, "absent", "ip1")
    \/ \E c \in Watchers : /\ streams = EmptyMap
                           /\ (\A d \in 1..(c - 1) : sockets[d].state # "none")
                           /\ Connect(c, "ip1")
    \/ \E c \in Watchers : \E n \in SweepNames :
                           /\ sockets[c].currentStream = NoName
                           /\ (\A d \in 1..(c - 1) : sockets[d].currentStream # NoName)
                           /\ n \in DOMAIN streams
                           /\ Join(c, n)
    \/ SweepInactive
    \/ \E t \in SweepInstants : Advance(t)

SpecSweep == Init /\ [][NextSweep]_vars

\* The stream:offline events of agentName among the events sent to c in
\* the step.
OfflineSent(c, agentName) ==
    Len(Since(inbox'[c], Len(inbox[c]), "stream:offline", agentName))

(* C15: a sweep turns offline every active session whose last activity is   *)
(* more than 5 minutes old and sends one offline event to each connection   *)
(* subscribed to it; it leaves every other session as it is and sends no    *)
(* offline event for it; a sweep that follows a sweep changes nothing.      *)
C15_SweepOnce ==
    [][last'.op = "sweep" =>
         /\ DOMAIN streams' = DOMAIN streams
         /\ \A n \in DOMAIN streams :
               IF streams[n].active /\ now - streams[n].lastActivity > INACTIVE_TIMEOUT
               THEN /\ streams'[n] = [streams[n] EXCEPT !.active = FALSE]
                    /\ \A c \in Conns :
                          OfflineSent(c, n) = IF n \in rooms[c] THEN 1 ELSE 0
               ELSE /\ streams'[n] = streams[n]
                    /\ \A c \in Conns : OfflineSent(c, n) = 0
         /\ \A c \in Conns :
               Len(inbox'[c]) = Len(inbox[c])
                   + Cardinality({n \in DOMAIN streams : OfflineSent(c, n) = 1})
         /\ last.op = "sweep" => streams' = streams /\ inbox' = inbox
      ]_vars

\* Nova1 timed out, was resumed by a send and timed out again: its viewer
\* was sent one offline event each time, and none by the sweep that
\* followed the second.
C15_Witness ==
    /\ last.op = "sweep"
    /\ last.result = "idle"
    /\ Nova1 \in DOMAIN streams
    /\ ~streams[Nova1].active
    /\ now - streams[Nova1].lastActivity > 300000
    /\ \E c \in Conns :
          /\ Nova1 \in rooms[c]
          /\ Len(Since(inbox[c], 0, "stream:offline", Nova1)) = 2
          /\ inbox[c][Len(inbox[c])].ev = "stream:offline"

-----------------------------------------------------------------------------
(* The switch model: a producer claims Nova1 and, at any later moment,      *)
(* Bot_2; two connections open one after the other, join either name up to      *)
(* MaxJoins times each, and close at any moment.                            *)

NextSwitch ==
    \/ \E n \in SweepNames :
          /\ n \notin DOMAIN streams
          /\ (n = Bot_2 => Nova1 \in DOMAIN streams)
          /\ Send(n, NoToken, TextHi, "absent", "ip1")
    \/ \E c \in Watchers : /\ Nova1 \in DOMAIN streams
                           /\ (\A d \in 1..(c - 1) : sockets[d].state # "none")
                           /\ Connect(c, "ip1")
    \/ \E c \in Watchers : \E n \in SweepNames :
                           /\ JoinsOf(c) < MaxJoins
                           /\ (\A d \in 1..(c - 1) : JoinsOf(d) > 0 \/ sockets[d].state = "closed")
                           /\ Join(c, n)
    \/ \E c \in Watchers : Disconnect(c)

SpecSwitch == Init /\ [][NextSwitch]_vars

\* The step is an accepted join of c to agentName.
JoinStep(c, agentName) ==
    /\ last'.op = "join"
    /\ last'.conn = c
    /\ last'.name = agentName
    /\ last'.result = "joined"

\* The step is a leave of agentName by c: c closes, or joins another name.
LeaveStep(c, agentName) ==
    /\ last'.conn = c
    /\ sockets[c].currentStream = agentName
    /\ \/ last'.op = "disconnect"
       \/ /\ last'.op = "join"
          /\ last'.name # agentName
          /\ last'.result # "invalid_name"

\* The number the last viewer:count event of agentName among the emit
\* calls out carries, -1 if there is none.
LastCount(out, agentName) ==
    LET counts == {k \in 1..Len(out) : /\ out[k].e.ev = "viewer:count"
                                       /\ out[k].e.name = agentName}
    IN IF counts = {} THEN -1
       ELSE out[CHOOSE k \in counts : \A j \in counts : j <= k].e.data

(* C16: an accepted join of a connection that is no viewer of the session   *)
(* raises the viewer count by one and the leave of a viewer (its disconnect *)
(* or its join to another name) lowers it by one, so that a leave right     *)
(* after the join gives the count from before the join; a session none of   *)
(* the open connections is joined to has no viewers: after N joins and the  *)
(* N leaves the count is 0.                                                 *)
C16_JoinLeaveRestores ==
    /\ [][\A c \in Conns : \A n \in DOMAIN streams :
             LET count == Cardinality(streams[n].viewers)
                 countAfter == Cardinality(streams'[n].viewers)
             IN /\ (JoinStep(c, n) /\ c \notin streams[n].viewers) =>
                      /\ streams'[n].viewers = streams[n].viewers \cup {c}
                      /\ countAfter = count + 1
                /\ (LeaveStep(c, n) /\ c \in streams[n].viewers) =>
                      /\ streams'[n].viewers = streams[n].viewers \ {c}
                      /\ countAfter = count - 1
                /\ (LeaveStep(c, n) /\ last.op = "join" /\ last.conn = c
                       /\ last.name = n /\ last.result = "joined") =>
                      LastCount(emits, n) = countAfter + 1
         ]_vars
    /\ [](\A n \in DOMAIN streams :
             (\A c \in Conns : sockets[c].state = "open"
                                  => sockets[c].currentStream # n)
                 => streams[n].viewers = {})

\* Both connections were viewers of Nova1 at once; one has left it for
\* Bot_2 and the other has closed: Nova1 has no viewer.
C16_Witness ==
    /\ last.op = "disconnect"
    /\ last.name = Nova1
    /\ Nova1 \in DOMAIN streams
    /\ streams[Nova1].peakViewers = 2
    /\ streams[Nova1].viewers = {}
    /\ Bot_2 \in DOMAIN streams
    /\ streams[Bot_2].viewers # {}

-----------------------------------------------------------------------------
\* The viewer set and the peak counters are as before the step.
PresenceUnchanged(agentName) ==
    /\ streams'[agentName].viewers = streams[agentName].viewers
    /\ streams'[agentName].peakViewers = streams[agentName].peakViewers
    /\ globalStats'.peakConcurrentViewers = globalStats.peakConcurrentViewers
    /\ globalStats'.allTimePeakViewers = globalStats.allTimePeakViewers

\* The step is a join to agentName while its session is full.
JoinToFull(c, agentName) ==
    /\ last'.op = "join"
    /\ last'.conn = c
    /\ last'.name = agentName
    /\ agentName \in DOMAIN streams
    /\ Cardinality(streams[agentName].viewers) >= MAX_VIEWERS_PER_STREAM

-----------------------------------------------------------------------------
\* The sessions c is a viewer of.
WatchedBy(c) == {n \in DOMAIN streams : c \in streams[n].viewers}

(* C18: every connection is a viewer of at most one session and in the room *)
(* of at most one name, the name it joined last; a join to another name     *)
(* takes the connection out of the viewer set and the room of the name it   *)
(* was joined to in the same step; a closed connection is in no viewer set  *)
(* and in no room.                                                          *)
C18_OneStreamPerConnection ==
    /\ [](\A c \in Conns :
             /\ Cardinality(WatchedBy(c)) <= 1
             /\ Cardinality(rooms[c]) <= 1
             /\ WatchedBy(c) \cup rooms[c] \subseteq {sockets[c].currentStream}
             /\ sockets[c].state = "closed" => WatchedBy(c) = {} /\ rooms[c] = {})
    /\ [][\A c \in Conns : \A n \in SweepNames :
             (LeaveStep(c, n) /\ last'.op = "join") =>
                 /\ n \notin rooms'[c]
                 /\ n \notin {m \in DOMAIN streams' : c \in streams'[m].viewers}
                 /\ rooms'[c] = {last'.name}]_vars

\* Connection 2 was a viewer of Nova1 and has joined Bot_2: it is a viewer
\* of Bot_2 only, while connection 1 has closed.
C18_Witness ==
    /\ last.op = "join"
    /\ last.result = "joined"
    /\ last.name = Bot_2
    /\ last.conn = 2
    /\ inbox[2][1] = Event("stream:init", Nova1, streams[Nova1].lines)
    /\ WatchedBy(2) = {Bot_2}
    /\ rooms[2] = {Bot_2}
    /\ sockets[1].state = "closed"
    /\ streams[Nova1].peakViewers = 2

-----------------------------------------------------------------------------
\* The step is the disconnect of l, a viewer of agentName.
ViewerCloses(l, agentName) ==
    /\ last'.op = "disconnect"
    /\ last'.conn = l
    /\ l \in streams[agentName].viewers

\* The step before was a join of j to agentName.
JoinRanFirst(j, agentName) ==
    /\ last.op = "join"
    /\ last.conn = j
    /\ last.name = agentName
    /\ last.result \in {"joined", "capacity"}

\* The disconnect of the viewer l of n takes l, and nobody else, out of
\* the viewer set and publishes the new size to the room.
DisconnectCounts(l, n) ==
    /\ streams'[n].viewers = streams[n].viewers \ {l}
    /\ Cardinality(streams'[n].viewers) = Cardinality(streams[n].viewers) - 1
    /\ emits' = <<roomEmit(rooms', n, "viewer:count",
                           Cardinality(streams'[n].viewers))>>

\* A join of j to n that finds the session below its maximum adds j and
\* publishes the new size last.
JoinCounts(j, n) ==
    (/\ last'.op = "join"
     /\ last'.conn = j
     /\ last'.name = n
     /\ Cardinality(streams[n].viewers \ {j}) < MAX_VIEWERS_PER_STREAM) =>
        /\ last'.result = "joined"
        /\ streams'[n].viewers = streams[n].viewers \cup {j}
        /\ LastCount(emits', n) = Cardinality(streams'[n].viewers)

(* C19 as stated: the disconnect of a viewer lowers the count by one and    *)
(* publishes the new size; when a join of another connection to the name    *)
(* ran just before it, or runs after it, the joiner is a viewer after both  *)
(* and the count published last is the final size.                          *)
C19_Original ==
    [][\A n \in DOMAIN streams : \A l \in Conns :
          /\ ViewerCloses(l, n) =>
                /\ DisconnectCounts(l, n)
                /\ \A j \in Conns \ {l} :
                      JoinRanFirst(j, n) => j \in streams'[n].viewers
          /\ JoinCounts(l, n)]_vars

(* C19: the disconnect of a viewer lowers the count by one and publishes    *)
(* the new size to the room.  When a join of another connection to the name *)
(* ran just before it, the joiner is a viewer after both if its join was    *)
(* accepted and is none if it was rejected with Capacity; a join that runs  *)
(* after it finds the session below its maximum, adds the joiner and        *)
(* publishes the final size.                                                *)
C19_DisconnectRace ==
    [][\A n \in DOMAIN streams : \A l \in Conns :
          /\ ViewerCloses(l, n) =>
                /\ DisconnectCounts(l, n)
                /\ Cardinality(streams'[n].viewers) < MAX_VIEWERS_PER_STREAM
                /\ \A j \in Conns \ {l} :
                      JoinRanFirst(j, n) =>
                          (j \in streams'[n].viewers <=> last.result = "joined")
          /\ JoinCounts(l, n)]_vars

\* A join ran against the full session and was rejected; then a viewer
\* closed: the session is one below its maximum, without the joiner.
C19_Witness ==
    /\ last.op = "disconnect"
    /\ emits # <<>>
    /\ emits[1].e.data = MAX_VIEWERS_PER_STREAM - 1
    /\ Cardinality(viewersOf(Nova1)) = MAX_VIEWERS_PER_STREAM - 1
    /\ \E j \in Conns :
          /\ sockets[j].state = "open"
          /\ sockets[j].currentStream = Nova1
          /\ j \notin viewersOf(Nova1)
          /\ inbox[j][Len(inbox[j]) - 1].ev = "error"
          /\ inbox[j][Len(inbox[j])] = Event("viewer:count", Nova1, MAX_VIEWERS_PER_STREAM - 1)

-----------------------------------------------------------------------------
\* The positions of the viewer:count events of agentName among the emit
\* calls out.
CountEmits(out, agentName) ==
    {k \in 1..Len(out) : out[k].e.ev = "viewer:count" /\ out[k].e.name = agentName}

(* C20: every viewer:count event carries the size the viewer set has when   *)
(* it is emitted (the set without the leaver for the leave, the final set   *)
(* for the join) and goes to the name's room; every accepted join publishes *)
(* one with the size after the join, and every leave of the name (by a      *)
(* disconnect or another join of a connection joined to it, every viewer    *)
(* among them) publishes one with the size after the leave.                 *)
C20_CountIsSize ==
    [][\A n \in DOMAIN streams :
          LET c == last'.conn
              ks == CountEmits(emits', n)
              joined == last'.op = "join" /\ last'.name = n
                            /\ last'.result = "joined"
              leaves == /\ c \in Conns
                        /\ last'.op \in {"join", "disconnect"}
                        /\ last'.result # "invalid_name"
              left == leaves /\ sockets[c].currentStream = n
              sizeLeft == Cardinality(streams[n].viewers \ {c})
              sizeAfter == Cardinality(streams'[n].viewers)
          IN /\ \A k \in ks :
                   /\ emits'[k].via = "room"
                   /\ emits'[k].e.data =
                        IF left /\ k = 1 THEN sizeLeft ELSE sizeAfter
                   /\ emits'[k].to =
                        IF left /\ k = 1 THEN Room(rooms', n) \ {c}
                        ELSE Room(rooms', n)
             /\ Cardinality(ks) = (IF left THEN 1 ELSE 0) + (IF joined THEN 1 ELSE 0)
             /\ left => 1 \in ks
             /\ (leaves /\ c \in streams[n].viewers) => left
             /\ joined => emits'[Len(emits')].e.ev \in {"viewer:count", "stream:offline"}
      ]_vars

\* Three connections joined the new session and one of them closed:
\* connection 1 was sent the counts 1, 2, 3 and 2.
C20_Witness ==
    /\ last.op = "disconnect"
    /\ Nova1 \in DOMAIN streams
    /\ sockets[1].state = "open"
    /\ Since(inbox[1], 0, "viewer:count", Nova1) = <<1, 2, 3, 2>>

-----------------------------------------------------------------------------
(* The moderation model: a producer claims Nova1 and sends it up to         *)
(* MaxSends lines, with and without its token; an admin ends, bans and      *)
(* unbans Nova1 at any time; two connections open and join Nova1 once, one  *)
(* after the other.  The admin stops ending the stream once a connection    *)
(* has been sent MaxInbox events.                                           *)

Quiet == \A c \in Conns : Len(inbox[c]) < MaxInbox

NextModeration ==
    \/ \E tok \in {NoToken, TokenOf(Nova1)} :
          MaySend(Nova1, tok) /\ Send(Nova1, tok, TextHi, "thought", "ip1")
    \/ Quiet /\ EndStream(Nova1)
    \/ Ban(Nova1)
    \/ Unban(Nova1)
    \/ \E c \in Watchers : /\ (\A d \in 1..(c - 1) : sockets[d].state # "none")
                           /\ Connect(c, "ip1")
    \/ \E c \in Watchers : /\ JoinsOf(c) = 0
                           /\ (\A d \in 1..(c - 1) : JoinsOf(d) > 0)
                           /\ Join(c, Nova1)

SpecModeration == Init /\ [][NextModeration]_vars

(* C21: a join for a name that is in the ban set neither adds the joining   *)
(* connection to the name's viewer set nor puts it in the name's room,      *)
(* whether the name has an active session, an offline one or none.          *)
C21_BannedJoinDisabled ==
    [][\A c \in Conns :
          (last'.op = "join" /\ last'.conn = c /\ last'.name \in bannedAgents) =>
              /\ last'.name \notin rooms'[c]
              /\ c \notin (IF last'.name \in DOMAIN streams'
                           THEN streams'[last'.name].viewers ELSE {})]_vars

\* Everything but the registry of sessions and the inboxes is as before
\* the step.
RestUnchanged ==
    UNCHANGED <<now, chatMessages, bannedAgents, rateLimits, ipConnectionCounts,
                ipStreamCreation, globalStats, tokensIssued, sockets, rooms>>

(* C22: an admin end of a name that has a session leaves the session with   *)
(* active = false and everything else in it as it was, and sends one        *)
(* offline event to every connection in the name's room and nothing to the  *)
(* others, whether the name is banned or not; for a name without a session  *)
(* it answers 404 and changes nothing.                                      *)
C22_EndStream ==
    [][last'.op = "end" =>
         LET n == last'.name
         IN /\ RestUnchanged
            /\ IF n \in DOMAIN streams
               THEN /\ last'.code = 200
                    /\ streams' = [streams EXCEPT ![n].active = FALSE]
                    /\ \A c \in Conns :
                          inbox'[c] = IF n \in rooms[c]
                                      THEN Append(inbox[c],
                                               Event("stream:offline", n, NoData))
                                      ELSE inbox[c]
               ELSE /\ last'.code = 404
                    /\ streams' = streams
                    /\ inbox' = inbox]_vars

\* The admin has ended the banned Nova1, which the ban had forced offline:
\* both connections in its room were sent offline a second time.
C22_Witness ==
    /\ last.op = "end"
    /\ last.result = "ended"
    /\ Nova1 \in bannedAgents
    /\ Room(rooms, Nova1) = Watchers
    /\ \A c \in Watchers :
          /\ Len(Since(inbox[c], 0, "stream:offline", Nova1)) >= 2
          /\ inbox[c][Len(inbox[c])].ev = "stream:offline"
          /\ inbox[c][Len(inbox[c]) - 1].ev = "stream:offline"

(* C23: an unban takes the name out of the ban set and changes nothing      *)
(* else: every session (active flag, token, lines, viewers, stats), every   *)
(* inbox and the rest of the state are as before; an offline session gets   *)
(* active again only in a send that is accepted.                            *)
C23_UnbanOnlyUnbans ==
    [][/\ last'.op = "unban" =>
            /\ bannedAgents' = bannedAgents \ {last'.name}
            /\ streams' = streams
            /\ inbox' = inbox
            /\ UNCHANGED <<now, chatMessages, rateLimits, ipConnectionCounts,
                           ipStreamCreation, globalStats, tokensIssued,
                           sockets, rooms>>
       /\ \A n \in DOMAIN streams :
             (~streams[n].active /\ streams'[n].active) =>
                 /\ last'.op = "send"
                 /\ last'.name = n
                 /\ last'.result = "accepted"
                 /\ last'.reqToken = streams[n].token]_vars

\* Nova1 was banned, which forced it offline and told connection 1 so, and
\* has been unbanned: it is still offline.
C23_Witness ==
    /\ last.op = "unban"
    /\ Nova1 \notin bannedAgents
    /\ Nova1 \in DOMAIN streams
    /\ ~streams[Nova1].active
    /\ streams[Nova1].totalMessages = 1
    /\ Since(inbox[1], 0, "stream:offline", Nova1) = <<NoData>>
    /\ \E c \in Conns : c \in streams[Nova1].viewers

-----------------------------------------------------------------------------
(* The lifecycle model, in two halves.  In the first a producer at ip1      *)
(* claims Nova1, sends it lines with any token and rotates its token, an    *)
(* admin ends, bans and unbans it, time passes beyond the inactivity        *)
(* timeout and the sweep runs.  In the second a producer at ip2 claims      *)
(* Nova1 and sends it lines, an admin ends it, and connection 1 opens,      *)
(* joins Nova1 once, writes to its chat and closes.                         *)

\* No request and no connection has come from the address ip.
Unused(ip) == ip \notin DOMAIN ipStreamCreation \cup DOMAIN ipConnectionCounts

\* The type the producer at the address ip gives its lines.
TypeFrom(ip) == IF ip = "ip1" THEN "tool" ELSE "thought"

NextLifecycle ==
    \/ \E tok \in TokenInputs :
          /\ Unused("ip2")
          /\ MaySend(Nova1, tok)
          /\ Send(Nova1, tok, TextHi, TypeFrom("ip1"), "ip1")
    \/ \E tok \in TokenInputs :
          Unused("ip2") /\ MayRotate(Nova1, tok) /\ Rotate(Nova1, tok)
    \/ (Unused("ip2") \/ Quiet) /\ EndStream(Nova1)
    \/ Unused("ip2") /\ Ban(Nova1)
    \/ Unused("ip2") /\ Unban(Nova1)
    \/ Unused("ip2") /\ SweepInactive
    \/ Unused("ip2") /\ DailyReset
    \/ \E t \in Instants : Advance(t)
    \/ \E tok \in {NoToken, TokenOf(Nova1)} :
          /\ Unused("ip1")
          /\ MaySend(Nova1, tok)
          /\ Send(Nova1, tok, TextHi, TypeFrom("ip2"), "ip2")
    \/ Unused("ip1") /\ Connect(1, "ip2")
    \/ Unused("ip1") /\ JoinsOf(1) = 0 /\ Join(1, Nova1)
    \/ /\ Unused("ip1")
       /\ sockets[1].currentStream # NoName
       /\ MayChat(1)
       /\ Patient(1)
       /\ ChatSend(1, TextHi)
    \/ Unused("ip1") /\ Disconnect(1)

SpecLifecycle == Init /\ [][NextLifecycle]_vars

\* The active flag of agentName, FALSE while it has no session.
Active(m, agentName) == agentName \in DOMAIN m /\ m[agentName].active

(* C24: a session comes into being, active, only in a creating send; it     *)
(* goes from active to offline only in a sweep that finds it timed out, an  *)
(* admin end or a ban; it goes from offline to active only in an accepted   *)
(* send that carries its current token; no session is ever removed, and no  *)
(* join, chat, disconnect, connect, rotate, unban or rejected send changes  *)
(* the flag.                                                                *)
C24_ActiveFlagMachine ==
    [][\A n \in ValidNames :
          /\ n \in DOMAIN streams => n \in DOMAIN streams'
          /\ (n \notin DOMAIN streams /\ n \in DOMAIN streams') =>
                /\ last'.op = "send"
                /\ last'.name = n
                /\ last'.result = "created"
                /\ streams'[n].active
          /\ (Active(streams, n) /\ ~Active(streams', n)) =>
                \/ last'.op = "sweep" /\ now - streams[n].lastActivity > INACTIVE_TIMEOUT
                \/ last'.op \in {"end", "ban"} /\ last'.name = n
          /\ (n \in DOMAIN streams /\ ~streams[n].active /\ Active(streams', n)) =>
                /\ last'.op = "send"
                /\ last'.name = n
                /\ last'.result = "accepted"
                /\ last'.reqToken = streams[n].token
          /\ (\/ last'.op \in {"join", "chat", "disconnect", "connect",
                               "rotate", "unban"}
              \/ last'.op = "send" /\ last'.result \notin {"created", "accepted"}) =>
                /\ DOMAIN streams' = DOMAIN streams
                /\ Active(streams', n) = Active(streams, n)]_vars

\* Nova1 timed out and has been resumed by a send with its token.
C24_Witness ==
    /\ last.op = "send"
    /\ last.result = "accepted"
    /\ Nova1 \in DOMAIN streams
    /\ streams[Nova1].active
    /\ streams[Nova1].startedAt = now
    /\ now > StartTime + INACTIVE_TIMEOUT
    /\ Nova1 \notin bannedAgents

-----------------------------------------------------------------------------
(* C25: a send that is accepted for an existing session adds exactly one    *)
(* line, of the type given, at the end of lines, adds 1 to totalMessages,   *)
(* sets lastActivity to the current time, leaves the session active and     *)
(* every other field but startedAt as it was, and delivers exactly one      *)
(* stream:line event, carrying that line, to each connection in the name's  *)
(* room and nothing to any other.                                           *)
C25_AcceptedSend ==
    [][(last'.op = "send" /\ last'.result = "accepted") =>
          LET n == last'.name
              old == streams[n]
              new == streams'[n]
              line == new.lines[Len(new.lines)]
          IN /\ n \in DOMAIN streams
             /\ n \notin bannedAgents
             /\ last'.reqToken = old.token
             /\ new.lines = Append(old.lines, line)
             /\ line.type = TypeFrom(last'.ip)
             /\ new.totalMessages = old.totalMessages + 1
             /\ new.lastActivity = now
             /\ new.active
             /\ new.token = old.token
             /\ new.viewers = old.viewers
             /\ new.peakViewers = old.peakViewers
             /\ \A m \in DOMAIN streams \ {n} : streams'[m] = streams[m]
             /\ \A c \in Conns :
                   inbox'[c] = IF n \in rooms[c]
                               THEN Append(inbox[c], Event("stream:line", n, line))
                               ELSE inbox[c]]_vars

\* A send has resumed Nova1, after the timeout, and reached its viewer.
C25_Witness ==
    /\ last.op = "send"
    /\ last.result = "accepted"
    /\ streams[Nova1].startedAt = now
    /\ streams[Nova1].lastActivity > StartTime
    /\ streams[Nova1].totalMessages = 2
    /\ 1 \in streams[Nova1].viewers
    /\ Len(inbox[1]) > 0
    /\ inbox[1][Len(inbox[1])] =
          Event("stream:line", Nova1, streams[Nova1].lines[2])

-----------------------------------------------------------------------------
(* The offline model: a producer claims Nova1 and sends it lines; Bot_2 is  *)
(* never claimed; connection 1 opens and joins one of the two names; it     *)
(* writes to the chat, with a text or without one; time passes to the end   *)
(* of the inactivity timeout and the sweep runs.                            *)

OfflineTexts == {TextHi, NotAString}

NextOffline ==
    \/ /\ Sent(Nova1) < MaxSends
       /\ Send(Nova1, TokenOf(Nova1), TextHi, "absent", "ip1")
    \/ Connect(1, "ip1")
    \/ \E n \in SweepNames : sockets[1].currentStream = NoName /\ Join(1, n)
    \/ \E text \in OfflineTexts : /\ sockets[1].currentStream # NoName
                                  /\ MayChat(1)
                                  /\ Patient(1)
                                  /\ ChatSend(1, text)
    \/ SweepInactive
    \/ \E t \in SweepInstants : Advance(t)

SpecOffline == Init /\ [][NextOffline]_vars

\* The chat handler has let go, without a word, of a message that had no
\* text: with a name to write to, that is its only "ignored".
TextGiven == last'.result # "ignored"

\* What a rejection with "Stream is offline" is: the error goes to the
\* writer alone, and no log, no socket and no session changes.
RejectedOffline ==
    LET c == last'.conn
    IN /\ last'.result = "offline"
       /\ emits' = <<socketEmit(c, last'.name, "error", "Stream is offline")>>
       /\ chatMessages' = chatMessages
       /\ sockets' = sockets
       /\ streams' = streams

\* The writer's name has no session or an offline one.
WritesOffline ==
    /\ last'.op = "chat"
    /\ last'.name # NoName
    /\ ~Active(streams, last'.name)

C26_AbsentWitness ==
    /\ last.op = "chat"
    /\ last.result = "offline"
    /\ last.name = Bot_2
    /\ Bot_2 \notin DOMAIN streams

(* C27: once the sweep has turned a session offline for inactivity, a chat  *)
(* with a text from one of its viewers whose cooldown is over is stored at  *)
(* the end of its chat log and sent to the connections in its room, and the *)
(* lines sent before stay stored.                                           *)
C27_ChatWorksOffline ==
    [][LET n == last'.name
           c == last'.conn
       IN (/\ last'.op = "chat"
           /\ TextGiven
           /\ n \in DOMAIN streams
           /\ ~streams[n].active
           /\ now - streams[n].lastActivity > INACTIVE_TIMEOUT
           /\ c \in streams[n].viewers
           /\ ~(now - sockets[c].lastChatTime < CHAT_COOLDOWN)) =>
              /\ last'.result = "sent"
              /\ n \in DOMAIN chatMessages'
              /\ Len(chatMessages'[n]) = Len(chatLog(n)) + 1
              /\ \A d \in Room(rooms, n) :
                    Len(inbox'[d]) = Len(inbox[d]) + 1
                    /\ inbox'[d][Len(inbox'[d])].ev = "chat:message"
              /\ streams'[n].lines = streams[n].lines]_vars

-----------------------------------------------------------------------------
(* The cooldown model: a producer claims Nova1 and Bot_2; connection 1      *)
(* opens, joins either name up to MaxJoins times, and writes to the chat of *)
(* the name it watches, a text or blanks; time passes to the last           *)
(* millisecond of its cooldown or to the end of it.                         *)

CooldownTexts == {TextHi, TextBlank}

CooldownInstants ==
    {t \in {sockets[1].lastChatTime + CHAT_COOLDOWN - 1,
            sockets[1].lastChatTime + CHAT_COOLDOWN} :
        t > now /\ t <= StartTime + (MaxChats + 1) * CHAT_COOLDOWN}

\* A writer that was told to slow down lets something else happen before
\* it writes again.
Heeded == ~(last.op = "chat" /\ last.result = "cooldown")

NextCooldown ==
    \/ \E n \in SweepNames :
          /\ n \notin DOMAIN streams
          /\ (n = Bot_2 => Nova1 \in DOMAIN streams)
          /\ Send(n, NoToken, TextHi, "absent", "ip1")
    \/ Bot_2 \in DOMAIN streams /\ Connect(1, "ip1")
    \/ \E n \in SweepNames : SnapshotsOf(1) < MaxJoins /\ Join(1, n)
    \/ \E text \in CooldownTexts : /\ sockets[1].currentStream # NoName
                                   /\ MayChat(1)
                                   /\ Heeded
                                   /\ ChatSend(1, text)
    \/ \E t \in CooldownInstants : sockets[1].state = "open" /\ Advance(t)

SpecCooldown == Init /\ [][NextCooldown]_vars

\* The messages of connection c that are stored, in any chat log, as pairs
\* of the name and the position in its log.
StoredBy(c) ==
    {p \in UNION {{<<n, i>> : i \in 1..Len(chatMessages[n])} :
                  n \in DOMAIN chatMessages} :
        chatMessages[p[1]][p[2]].user = hashSocketId(c)}

\* The events of the kind ev among the emits of the step.
Emitted(ev) == {i \in 1..Len(emits') : emits'[i].e.ev = ev}

(* C28: any two stored chat messages of one connection, in the log of one   *)
(* name or of two, are at least 6 seconds apart; and a chat made less than  *)
(* 6 seconds after a stored message of the same connection is not accepted: *)
(* no chat log changes and no chat:message is sent.                         *)
C28_ChatCooldown ==
    /\ [](\A c \in Conns : \A p, q \in StoredBy(c) :
            p # q =>
               LET tp == chatMessages[p[1]][p[2]].time
                   tq == chatMessages[q[1]][q[2]].time
               IN tp - tq >= CHAT_COOLDOWN \/ tq - tp >= CHAT_COOLDOWN)
    /\ [][(/\ last'.op = "chat"
           /\ \E p \in StoredBy(last'.conn) :
                 now - chatMessages[p[1]][p[2]].time < CHAT_COOLDOWN) =>
              /\ last'.result # "sent"
              /\ chatMessages' = chatMessages
              /\ Emitted("chat:message") = {}]_vars

\* Connection 1 wrote to Nova1, moved to Bot_2, was told to slow down in
\* the last millisecond of its cooldown and has written to Bot_2 after it.
C28_Witness ==
    /\ Cardinality(StoredBy(1)) = 2
    /\ Len(chatLog(Nova1)) = 1
    /\ Len(chatLog(Bot_2)) = 1
    /\ chatLog(Bot_2)[1].time = chatLog(Nova1)[1].time + CHAT_COOLDOWN
    /\ \E i \in 1..Len(inbox[1]) :
          inbox[1][i] = Event("error", Bot_2,
                              "Slow down! Wait a few seconds between messages.")

-----------------------------------------------------------------------------
(* The daily model: the process starts at a midnight and a producer claims  *)
(* Nova1; the timer of the daily reset, which ticked all day without        *)
(* effect, ticks a last time between one tick and one millisecond before    *)
(* the next midnight, and then every DAILY_TICK milliseconds, give or take  *)
(* TickJitter; each tick runs the reset handler once.                       *)

NextMidnight == StartTime + MsPerDay

\* How long before midnight the last tick of the day may come.
EveOffsets == {1, 2, DAILY_TICK \div 2, DAILY_TICK - 1, DAILY_TICK, DAILY_TICK + 1}

Jitters == (0 - TickJitter)..TickJitter

DailyHorizon == NextMidnight + 2 * DAILY_TICK

NextDaily ==
    \/ /\ now = StartTime
       /\ Nova1 \notin DOMAIN streams
       /\ Send(Nova1, NoToken, TextHi, "absent", "ip1")
    \/ \E o \in EveOffsets : /\ now = StartTime
                             /\ Nova1 \in DOMAIN streams
                             /\ Advance(NextMidnight - o)
    \/ \E j \in Jitters : /\ last.op = "daily"
                          /\ now < DailyHorizon
                          /\ Advance(now + DAILY_TICK + j)
    \/ last.op = "clock" /\ DailyReset

SpecDaily == Init /\ [][NextDaily]_vars

(* C29: for the midnight crossed while the process runs, whatever the       *)
(* jitter of the tick, the counters of the day are reset exactly once: no   *)
(* reset follows a reset of the same midnight, and once a tick has come     *)
(* after the minute of midnight the reset of that midnight has happened.    *)
C29_ResetOncePerDay ==
    /\ []((last.op = "daily" /\ now >= NextMidnight + DAILY_TICK) =>
             globalStats.lastReset >= NextMidnight)
    /\ [][(last'.op = "daily" /\ last'.result = "reset" /\ now >= NextMidnight) =>
             globalStats.lastReset < NextMidnight]_vars

-----------------------------------------------------------------------------
(* C30: the token of a session changes only in a rotate that names it and   *)
(* carries, as oldToken, the token it had before; every other step, sends   *)
(* accepted or rejected, ban, unban, end, sweep, daily reset, connect,      *)
(* join, chat, disconnect and the clock, leaves every token as it was.      *)
C30_TokenFrame ==
    [][\A n \in DOMAIN streams :
          /\ n \in DOMAIN streams'
          /\ streams'[n].token # streams[n].token =>
                /\ last'.op = "rotate"
                /\ last'.name = n
                /\ last'.result = "rotated"
                /\ last'.reqToken = streams[n].token
                /\ streams'[n].token = last'.token]_vars

\* Nova1 was turned offline and resumed with the token a rotate gave it.
C30_Witness ==
    /\ Nova1 \in DOMAIN streams
    /\ streams[Nova1].token = 2
    /\ tokensIssued = 2
    /\ last.op = "send"
    /\ last.result = "accepted"
    /\ last.reqToken = 2
    /\ streams[Nova1].startedAt = now
    /\ streams[Nova1].totalMessages = 2

-----------------------------------------------------------------------------
(* C31: a name that has a session keeps it in every step, through sweep,    *)
(* end, ban and unban; a send for it is never answered as a creation and    *)
(* returns no token, and a send without a token is not accepted and leaves  *)
(* the session as it is.                                                    *)
C31_NeverDeleted ==
    [][\A n \in DOMAIN streams :
          /\ n \in DOMAIN streams'
          /\ (last'.op = "send" /\ last'.name = n) =>
                /\ last'.result # "created"
                /\ last'.token = NoToken
                /\ last'.reqToken = NoToken =>
                      /\ last'.result \in {"invalid_token", "banned"}
                      /\ streams'[n] = streams[n]]_vars

\* Nova1 timed out and a send without a token has just been refused.
C31_Witness ==
    /\ last.op = "send"
    /\ last.reqToken = NoToken
    /\ last.result = "invalid_token"
    /\ Nova1 \in DOMAIN streams
    /\ ~streams[Nova1].active
    /\ now - streams[Nova1].lastActivity > INACTIVE_TIMEOUT
    /\ Nova1 \notin bannedAgents

-----------------------------------------------------------------------------
(* C32: in every reachable state no banned name has an active session: the  *)
(* session of a name in the ban set is absent or offline.                   *)
C32_BannedIsOffline ==
    \A n \in bannedAgents : ~Active(streams, n)

\* Nova1 was active with a viewer when it was banned, and a send with its
\* token has just been refused.
C32_Witness ==
    /\ Nova1 \in bannedAgents
    /\ Nova1 \in DOMAIN streams
    /\ last.op = "send"
    /\ last.result = "banned"
    /\ last.reqToken = streams[Nova1].token
    /\ streams[Nova1].viewers # {}
    /\ \E i \in 1..Len(inbox[1]) : inbox[1][i].ev = "stream:offline"

-----------------------------------------------------------------------------
(* C33: a send for an existing name that carries no token or a wrong one is *)
(* refused as invalid_token and leaves the rate-limit table and the session *)
(* as they are; and a send with the current token is accepted whenever the  *)
(* name's window is not open, is over, or counts fewer than 100 sends.      *)
C33_RejectedSendsAreFree ==
    [][(last'.op = "send" /\ last'.name \in DOMAIN streams) =>
          LET n == last'.name
          IN IF last'.reqToken # streams[n].token
             THEN /\ last'.result = "invalid_token"
                  /\ rateLimits' = rateLimits
                  /\ streams' = streams
             ELSE (\/ n \notin DOMAIN rateLimits
                   \/ now > rateLimits[n].resetTime
                   \/ rateLimits[n].count < STREAM_RATE_MAX) =>
                      /\ last'.result = "accepted"
                      /\ streams'[n].totalMessages = streams[n].totalMessages + 1]_vars

\* A send with a wrong token has just been refused in a window that counts
\* 99 sends, and the count is still 99.
C33_Witness ==
    /\ last.op = "send"
    /\ last.result = "invalid_token"
    /\ last.reqToken # NoToken
    /\ Nova1 \in DOMAIN rateLimits
    /\ rateLimits[Nova1].count = STREAM_RATE_MAX - 1
    /\ now <= rateLimits[Nova1].resetTime

-----------------------------------------------------------------------------
(* The throttle model: the producer of the burst model always sends its     *)
(* token; connection 1 opens and joins Nova1 after its first line; an admin *)
(* may end the stream while its budget is used up.                          *)

NextThrottle ==
    \/ /\ MayBurst(TokenOf(Nova1))
       /\ Send(Nova1, TokenOf(Nova1), SpamText(Sent(Nova1) + 1), "log", "ip1")
    \/ \E t \in BurstInstants : Advance(t)
    \/ Sent(Nova1) = 1 /\ Connect(1, "ip1")
    \/ Sent(Nova1) = 1 /\ sockets[1].currentStream = NoName /\ Join(1, Nova1)
    \/ Throttled(Nova1) /\ streams[Nova1].active /\ EndStream(Nova1)

SpecThrottle == Init /\ [][NextThrottle]_vars

(* C34: a send refused as rate_limited leaves every session as it is: no    *)
(* line is added, totalMessages and lastActivity keep their values and an   *)
(* offline session stays offline; nothing is sent to any connection.        *)
C34_ThrottledSendIsInert ==
    [][(last'.op = "send" /\ last'.result = "rate_limited") =>
          /\ streams' = streams
          /\ inbox' = inbox
          /\ globalStats' = globalStats]_vars

\* A send with the token to Nova1, ended while its budget was used up, has
\* just been refused as rate_limited, and Nova1 is still offline.
C34_Witness ==
    /\ last.op = "send"
    /\ last.result = "rate_limited"
    /\ Nova1 \in DOMAIN streams
    /\ ~streams[Nova1].active
    /\ streams[Nova1].totalMessages >= STREAM_RATE_MAX
    /\ Throttled(Nova1)
    /\ 1 \in streams[Nova1].viewers

-----------------------------------------------------------------------------
(* The timeout model: a producer claims Nova1 and sends it up to MaxSends   *)
(* lines, and any number of sends without its token; connection 1 opens,    *)
(* joins Nova1 once, writes to its chat and closes; time passes to the end  *)
(* of the inactivity timeout and the sweep runs.  The two timers of Node    *)
(* are the fairness: the clock moves on, and the interval of the sweep      *)
(* (setInterval, 60 s) fires again and again.                               *)

\* The first instant at which the sweep finds Nova1 timed out.
TimeoutInstants ==
    IF Nova1 \in DOMAIN streams
    THEN {t \in {streams[Nova1].lastActivity + INACTIVE_TIMEOUT + 1} : t > now}
    ELSE {}

NextTimeout ==
    \/ \E tok \in {NoToken, TokenOf(Nova1)} :
          MaySend(Nova1, tok) /\ Send(Nova1, tok, TextHi, "absent", "ip1")
    \/ Sent(Nova1) = 1 /\ Connect(1, "ip1")
    \/ SnapshotsOf(1) = 0 /\ Sent(Nova1) = 1 /\ Join(1, Nova1)
    \/ /\ sockets[1].currentStream # NoName
       /\ MayChat(1)
       /\ Patient(1)
       /\ ChatSend(1, TextHi)
    \/ Disconnect(1)
    \/ SweepInactive
    \/ \E t \in TimeoutInstants : Advance(t)

SpecTimeout ==
    /\ Init
    /\ [][NextTimeout]_vars
    /\ WF_vars(SweepInactive)
    /\ WF_vars(\E t \in TimeoutInstants : Advance(t))

(* C35: with the clock moving on and the sweep firing again and again, an   *)
(* active session is offline at some later time once the accepted sends to  *)
(* it have ceased, whatever refused sends, joins, chat messages and         *)
(* disconnects come in between.  The producer of the model sends a bounded  *)
(* number of accepted lines, so here every active session is eventually     *)
(* offline.                                                                 *)
C35_EventuallyOffline ==
    Active(streams, Nova1) ~> ~Active(streams, Nova1)

\* The sweep has just turned Nova1 offline, after its last line, with a
\* viewer that wrote to its chat.
C35_Witness ==
    /\ last.op = "sweep"
    /\ last.result = "timed_out"
    /\ Nova1 \in DOMAIN streams
    /\ ~streams[Nova1].active
    /\ streams[Nova1].totalMessages = MaxSends
    /\ Len(chatLog(Nova1)) = 1
    /\ 1 \in streams[Nova1].viewers

-----------------------------------------------------------------------------
(* C36: in every reachable state every session stores min(totalMessages,    *)
(* 500) lines; totalMessages grows by one in every accepted or creating     *)
(* send for the name, changes in no other step and so never decreases.      *)
C36_LinesCountMessages ==
    /\ [](\A n \in DOMAIN streams :
            Len(streams[n].lines) =
               IF streams[n].totalMessages < MAX_LINES
               THEN streams[n].totalMessages ELSE MAX_LINES)
    /\ [][\A n \in DOMAIN streams' :
            streams'[n].totalMessages =
               Sent(n) + IF /\ last'.op = "send"
                            /\ last'.name = n
                            /\ last'.result \in {"created", "accepted"}
                         THEN 1 ELSE 0]_vars

\* Nova1 has been sent more lines than it stores.
C36_Witness ==
    /\ Nova1 \in DOMAIN streams
    /\ streams[Nova1].totalMessages > MAX_LINES
    /\ Len(streams[Nova1].lines) = MAX_LINES
    /\ last.op = "send"
    /\ last.result = "accepted"

-----------------------------------------------------------------------------
(* C37: in every reachable state the peakViewers of every session is at     *)
(* least the number of its viewers, and no step makes the peakViewers of a  *)
(* session smaller.                                                         *)
C37_PeakViewers ==
    /\ [](\A n \in DOMAIN streams :
            streams[n].peakViewers >= Cardinality(streams[n].viewers))
    /\ [][\A n \in DOMAIN streams :
            /\ n \in DOMAIN streams'
            /\ streams'[n].peakViewers >= streams[n].peakViewers]_vars

\* Nova1 had two viewers; one has left and come back.
C37_Witness ==
    /\ Nova1 \in DOMAIN streams
    /\ streams[Nova1].peakViewers = 2
    /\ Cardinality(streams[Nova1].viewers) = 1
    /\ last.op = "join"
    /\ last.result = "joined"
    /\ last.name = Nova1
    /\ \E c \in Watchers : sockets[c].state = "closed"

-----------------------------------------------------------------------------
(* C38: in every reachable state the all-time peak of concurrent viewers is *)
(* at least the number of viewers of all active sessions together.          *)
C38_AllTimePeak ==
    globalStats.allTimePeakViewers >= getCurrentViewerCount(streams)

-----------------------------------------------------------------------------
(* C39: a chat message is stored and published for a name only when the     *)
(* connection that sends it is, at that moment, in the viewer set of the    *)
(* name's session.                                                          *)
C39_OnlyViewersChat ==
    [][(last'.op = "chat" /\ last'.result = "sent") =>
          /\ last'.name \in DOMAIN streams
          /\ last'.conn \in streams[last'.name].viewers]_vars

-----------------------------------------------------------------------------
(* C40: a chat attempt that stores and publishes nothing leaves the         *)
(* cooldown of its connection as it was: lastChatTime changes only in a     *)
(* step that appends a message to a chat log and publishes it.              *)
C40_CooldownOnlyOnStore ==
    [][\A c \in Conns :
          sockets'[c].lastChatTime # sockets[c].lastChatTime =>
             /\ last'.op = "chat"
             /\ last'.conn = c
             /\ last'.result = "sent"
             /\ chatMessages' # chatMessages
             /\ Emitted("chat:message") # {}]_vars

=============================================================================
